---- MODULE Spec2Model ----
(***************************************************************************)
(* netadapters: the HTTP listener (ServerAdapter.handleRequest), the       *)
(* pending-response handle (responseWriter), the response emitter          *)
(* (ClientEmitter.Emit) and the relay router (processEvent, forwardRequest)*)
(* as state machines.                                                      *)
(*                                                                         *)
(* A request is identified by the slot r of its connection; the request ID *)
(* minted for it by uuid.New() is RequestID(r).                            *)
(* A handle (the *responseWriter made for r) is named by r as well: it     *)
(* outlives its registry entry, as a pointer held by an emitter does.      *)
(***************************************************************************)
EXTENDS Integers, Sequences, FiniteSets, TLC

----------------------------------------------------------------------------
(* Bounds of the model *)

NumRequests == 2      \* connections the echo server accepts
NumEmitters == 2      \* concurrent Emit calls on one node
MaxDeliveries == 2    \* deliveries of response events per request ID
NumRelayRequests == 1 \* connections the relay node accepts
NumWorkers == 2       \* WORKER_COUNT of the relay node
RelayMaxHops == 2     \* MAX_HOPS of the relay node
RingMaxHops == 2      \* MAX_HOPS of the nodes of the ring
IntBits == 8          \* width of the model's int (64 in the build)

(* Program constants *)

StatusOK == 200
StatusBadRequest == 400
StatusInternalServerError == 500
DefaultMaxHops == 10        \* getEnvInt("MAX_HOPS", 10)

----------------------------------------------------------------------------
VARIABLES
    topology,   \* per node: the program it runs and its adapters (fixed)
    uuid,       \* per request: the ID uuid.New() returns for it (fixed)
    calls,      \* per adapter: the Start and Stop calls made on it since startup
    arg,        \* the argument of a helper function called on its own, if any
    ret,        \* what that call returned, once it has
    hpc,        \* per request: position of its handleRequest flow
    req,        \* per request: the inbound call (adapter, X-Hop-Count, origin)
    outcome,    \* per request: the path by which handleRequest returned
    globalResponseWriters, \* per node: request ID -> handle (sync.Map)
    written,    \* per handle: responseWriter.written
    done,       \* per handle: responseWriter.done is closed
    mu,         \* per handle: the emitter holding responseWriter.mu
    sink,       \* per request: what was written to its http.ResponseWriter
    removed,    \* per request: Delete calls that removed its registry entry
    publishCalls, \* per request: bus.Publish calls made for its request event
    reqQ,       \* per node: the "net.http.request" subscription
    respQ,      \* per node: the "net.http.response" subscription of the emitter
    delivered,  \* per request ID: response events handed to the emitter's queue
    respSeen,   \* response events published so far
    epc,        \* per emitter: position in Emit
    erw,        \* per emitter: the handle GetResponseWriter returned
    eevt,       \* per emitter: the response event being emitted
    results,    \* per request ID: Emit calls returned, by result
    routesInOrder, \* per node: its routes, in configuration order (fixed)
    stats,      \* per node and route: received, forwarded, dropped, errors
    totalStats, \* per node: the same four counters over all routes
    wpc,        \* per worker: position in processEvent
    wevt,       \* per worker: the event it is processing
    wroute,     \* per worker: index of the route it resolved for the event
    whop,       \* per worker: hopCount
    forwards,   \* the forward goroutines spawned so far, in spawn order
    evlog,      \* per request ID: the routing decisions taken for its event
    replies,    \* per request ID: response events a router passed to Publish
    phase,      \* per node: how far main has got with the shutdown
    srv         \* per adapter: ServerAdapter.running, .server, .bus, .clk

listenerVars == <<hpc, req, outcome, globalResponseWriters, written, done, mu,
                  sink, removed, publishCalls>>
busVars == <<reqQ, respQ, delivered, respSeen>>
emitterVars == <<epc, erw, eevt, results>>
routerVars == <<routesInOrder, stats, totalStats, wpc, wevt, wroute, whop,
               forwards, evlog, replies>>
mainVars == <<phase, srv>>
vars == <<topology, uuid, calls, arg, ret, listenerVars, busVars, emitterVars, routerVars, mainVars>>

----------------------------------------------------------------------------
(* Data *)

NoHeader == <<>>            \* the X-Hop-Count header is absent
NoEmitter == <<"-", 0>>     \* rw.mu is free

RequestID(r) == uuid[r]     \* requestID := uuid.New().String()
ForeignID == 0              \* an ID no handleRequest flow ever minted

ResultKinds == {"ok", "notfound", "already", "writeerr"}

NoBody == [kind |-> "none", node |-> "-", hop |-> 0, of |-> 0]
NoEvent == [id |-> 0 - 1, status |-> 0, body |-> NoBody]

ResponseEvent(id, status, body) == [id |-> id, status |-> status, body |-> body]

\* What one response written to a connection looks like at the caller.
\* ok = FALSE: the status line went out but writing the body failed.
Written(src, status, body, ok) ==
    [src |-> src, status |-> status, body |-> body, ok |-> ok]

ErrorBody(text) == [kind |-> text, node |-> "-", hop |-> 0, of |-> 0]
FallbackBody == [kind |-> "Request processed", node |-> "-", hop |-> 0, of |-> 0]
Fallback == Written("fallback", StatusOK, FallbackBody, TRUE)
HttpError(text, status) == Written("error", status, ErrorBody(text), TRUE)

\* NewServerAdapter: not running, no server, no bus, no clock.
NewServerAdapter == [running |-> FALSE, server |-> 0, bus |-> "-", clk |-> "-"]

\* The adapter after a Start that went through: bus and clock kept, a new
\* http.Server made and serving, running set.
Started(a, bus, clk) ==
    [running |-> TRUE, server |-> a.server + 1, bus |-> bus, clk |-> clk]

\* The adapter after a Stop that found it running: running is cleared, the
\* http.Server it shut down stays in a.server.
Stopped(a) == [a EXCEPT !.running = FALSE]

NoError == "nil"
AlreadyRunning == "adapter already running"
\* What a.server.Shutdown(ctx) returns under its 5 s deadline.
ShutdownErrors == {NoError, "context deadline exceeded"}

StartCall(bus, clk, err) == [op |-> "Start", bus |-> bus, clk |-> clk, err |-> err]
StopCall(err) == [op |-> "Stop", bus |-> "-", clk |-> "-", err |-> err]

NodeOf(a) == CHOOSE n \in DOMAIN topology :
                \E i \in DOMAIN topology[n].adapters : topology[n].adapters[i] = a

----------------------------------------------------------------------------
(* The registry: sync.Map keyed by request ID *)

Store(reg, id, h) == [x \in (DOMAIN reg) \cup {id} |-> IF x = id THEN h ELSE reg[x]]
Delete(reg, id) == [x \in (DOMAIN reg) \ {id} |-> reg[x]]
Registered(n, id) == id \in DOMAIN globalResponseWriters[n]

\* (mutant) the Delete empties the registry of the node
DeleteWriter_Clear(r) ==
    LET n == NodeOf(req[r].adapter) IN
    /\ globalResponseWriters' = [globalResponseWriters EXCEPT ![n] = <<>>]
    /\ removed' = [removed EXCEPT
                     ![r] = IF Registered(n, RequestID(r)) THEN @ + 1 ELSE @]

\* globalResponseWriters.Delete(requestID) in handleRequest, with the count of
\* the calls that found the entry.
DeleteWriter(r) ==
    LET n == NodeOf(req[r].adapter) IN
    /\ globalResponseWriters' =
          [globalResponseWriters EXCEPT ![n] = Delete(@, RequestID(r))]
    /\ removed' = [removed EXCEPT
                     ![r] = IF Registered(n, RequestID(r)) THEN @ + 1 ELSE @]

----------------------------------------------------------------------------
(* Clients *)

Used(r) == hpc[r] # "idle"

\* A client opens a connection to adapter a and sends a request carrying
\* X-Hop-Count header h; net/http calls handleRequest for it.  Slots are
\* taken in order.
ClientSend(r, a, h) ==
    /\ hpc[r] = "idle"
    /\ srv[a].running
    /\ \A q \in DOMAIN hpc : q < r => Used(q)
    /\ hpc' = [hpc EXCEPT ![r] = "accepted"]
    /\ req' = [req EXCEPT ![r] = [adapter |-> a, hop |-> h, from |-> 0]]
    /\ UNCHANGED <<outcome, globalResponseWriters, written, done, mu, sink,
                   removed, publishCalls>>
    /\ UNCHANGED <<topology, uuid, calls, arg, ret, phase, srv, busVars, emitterVars, routerVars>>

----------------------------------------------------------------------------
(* ServerAdapter.handleRequest *)

Return(r, how) ==
    /\ hpc' = [hpc EXCEPT ![r] = "returned"]
    /\ outcome' = [outcome EXCEPT ![r] = how]

\* io.ReadAll fails: 400, nothing registered, nothing published.
HandleReadError(r) ==
    /\ hpc[r] = "accepted"
    /\ sink' = [sink EXCEPT ![r] =
                  Append(@, HttpError("Failed to read request body", StatusBadRequest))]
    /\ Return(r, "badbody")
    /\ UNCHANGED <<req, globalResponseWriters, written, done, mu, removed, publishCalls>>
    /\ UNCHANGED <<topology, uuid, calls, arg, ret, phase, srv, busVars, emitterVars, routerVars>>

\* (mutant) the error is answered but the flow goes on
HandleEventError_NoReturn(r) ==
    /\ hpc[r] = "accepted"
    /\ outcome[r] = "none"
    /\ sink' = [sink EXCEPT ![r] =
                  Append(@, HttpError("Failed to create event", StatusInternalServerError))]
    /\ outcome' = [outcome EXCEPT ![r] = "evtfail"]
    /\ UNCHANGED <<hpc, req, globalResponseWriters, written, done, mu, removed, publishCalls>>
    /\ UNCHANGED <<topology, uuid, calls, arg, ret, phase, srv, busVars, emitterVars, routerVars>>

\* event.NewEvent fails: 500, nothing registered, nothing published.
HandleEventError(r) ==
    /\ hpc[r] = "accepted"
    /\ sink' = [sink EXCEPT ![r] =
                  Append(@, HttpError("Failed to create event", StatusInternalServerError))]
    /\ Return(r, "evtfail")
    /\ UNCHANGED <<req, globalResponseWriters, written, done, mu, removed, publishCalls>>
    /\ UNCHANGED <<topology, uuid, calls, arg, ret, phase, srv, busVars, emitterVars, routerVars>>

\* (mutant) the handle is made but not stored before the publish
HandleRegister_NoStore(r) ==
    /\ hpc[r] = "accepted"
    /\ written' = [written EXCEPT ![r] = FALSE]
    /\ done' = [done EXCEPT ![r] = FALSE]
    /\ hpc' = [hpc EXCEPT ![r] = "registered"]
    /\ UNCHANGED <<req, outcome, globalResponseWriters, mu, sink, removed, publishCalls>>
    /\ UNCHANGED <<topology, uuid, calls, arg, ret, phase, srv, busVars, emitterVars, routerVars>>

\* The request is read, the ID minted, the event built and the handle stored
\* in the registry (written = false, done open).
HandleRegister(r) ==
    LET n == NodeOf(req[r].adapter) IN
    /\ hpc[r] = "accepted"
    /\ globalResponseWriters' =
          [globalResponseWriters EXCEPT ![n] = Store(@, RequestID(r), r)]
    /\ written' = [written EXCEPT ![r] = FALSE]
    /\ done' = [done EXCEPT ![r] = FALSE]
    /\ hpc' = [hpc EXCEPT ![r] = "registered"]
    /\ UNCHANGED <<req, outcome, mu, sink, removed, publishCalls>>
    /\ UNCHANGED <<topology, uuid, calls, arg, ret, phase, srv, busVars, emitterVars, routerVars>>

\* What the caller of connection r sends: each caller POSTs its own body.
RequestMethod(r) == "POST"
RequestPath(r) == "/api/test"
RequestBody(r) == <<"hello", r>>

\* The request event: the payload carries the ID, method, path, headers and
\* body; the metadata carries adapter_id.
RequestEvent(r) ==
    [id |-> RequestID(r), adapter |-> req[r].adapter, hop |-> req[r].hop, ok |-> TRUE,
     method |-> RequestMethod(r), path |-> RequestPath(r), body |-> RequestBody(r)]

\* a.bus.Publish succeeds: the event is on the request subscription, unless
\* the subscription has been closed, and the flow enters the select.
PublishOK(r) ==
    LET n == NodeOf(req[r].adapter) IN
    /\ hpc[r] = "registered"
    /\ publishCalls' = [publishCalls EXCEPT ![r] = @ + 1]
    /\ reqQ' = [reqQ EXCEPT ![n] = IF phase[n] = "running"
                                      THEN Append(@, RequestEvent(r)) ELSE @]
    /\ hpc' = [hpc EXCEPT ![r] = "waiting"]
    /\ UNCHANGED <<req, outcome, globalResponseWriters, written, done, mu, sink, removed>>
    /\ UNCHANGED <<respQ, delivered, respSeen>>
    /\ UNCHANGED <<topology, uuid, calls, arg, ret, phase, srv, emitterVars, routerVars>>

\* (mutant) the publish-failure path answers 500 but keeps the handle registered
PublishFail_NoDelete(r) ==
    /\ hpc[r] = "registered"
    /\ publishCalls' = [publishCalls EXCEPT ![r] = @ + 1]
    /\ sink' = [sink EXCEPT ![r] =
                  Append(@, HttpError("Failed to process request", StatusInternalServerError))]
    /\ Return(r, "pubfail")
    /\ UNCHANGED <<req, globalResponseWriters, written, done, mu, removed>>
    /\ UNCHANGED <<topology, uuid, calls, arg, ret, phase, srv, busVars, emitterVars, routerVars>>

\* a.bus.Publish fails: Delete, http.Error 500, return.
PublishFail(r) ==
    /\ hpc[r] = "registered"
    /\ publishCalls' = [publishCalls EXCEPT ![r] = @ + 1]
    /\ DeleteWriter(r)
    /\ sink' = [sink EXCEPT ![r] =
                  Append(@, HttpError("Failed to process request", StatusInternalServerError))]
    /\ Return(r, "pubfail")
    /\ UNCHANGED <<req, written, done, mu>>
    /\ UNCHANGED <<topology, uuid, calls, arg, ret, phase, srv, busVars, emitterVars, routerVars>>

\* (mutant) the completion path leaves the entry in the registry
WaitDone_NoDelete(r) ==
    /\ hpc[r] = "waiting"
    /\ done[r]
    /\ Return(r, "done")
    /\ UNCHANGED <<globalResponseWriters, removed>>
    /\ UNCHANGED <<req, written, done, mu, sink, publishCalls>>
    /\ UNCHANGED <<topology, uuid, calls, arg, ret, phase, srv, busVars, emitterVars, routerVars>>

\* (mutant) the end of the wait cancels the forwards made for the request
WaitDone_CancelForward(r) ==
    /\ hpc[r] = "waiting"
    /\ done[r]
    /\ DeleteWriter(r)
    /\ Return(r, "done")
    /\ forwards' = [f \in DOMAIN forwards |->
                      IF forwards[f].id = RequestID(r) /\ forwards[f].state \in {"spawned", "sent"}
                        THEN [forwards[f] EXCEPT !.state = "err"]
                        ELSE forwards[f]]
    /\ UNCHANGED <<req, written, done, mu, sink, publishCalls>>
    /\ UNCHANGED <<routesInOrder, stats, totalStats, wpc, wevt, wroute, whop, evlog,
                   replies>>
    /\ UNCHANGED <<topology, uuid, calls, arg, ret, phase, srv, busVars, emitterVars>>

\* select: case <-rw.done
WaitDone(r) ==
    /\ hpc[r] = "waiting"
    /\ done[r]
    /\ DeleteWriter(r)
    /\ Return(r, "done")
    /\ UNCHANGED <<req, written, done, mu, sink, publishCalls>>
    /\ UNCHANGED <<topology, uuid, calls, arg, ret, phase, srv, busVars, emitterVars, routerVars>>

\* (mutant) the timeout path leaves the entry in the registry
WaitTimeout_NoDelete(r) ==
    /\ hpc[r] = "waiting"
    /\ hpc' = [hpc EXCEPT ![r] = "expired"]
    /\ UNCHANGED <<req, outcome, globalResponseWriters, written, done, mu, sink,
                   removed, publishCalls>>
    /\ UNCHANGED <<topology, uuid, calls, arg, ret, phase, srv, busVars, emitterVars, routerVars>>

\* select: case <-time.After(30 * time.Second), which the select may take
\* whenever the timer has fired, also when done is closed as well.
WaitTimeout(r) ==
    /\ hpc[r] = "waiting"
    /\ DeleteWriter(r)
    /\ hpc' = [hpc EXCEPT ![r] = "expired"]
    /\ UNCHANGED <<req, outcome, written, done, mu, sink, publishCalls>>
    /\ UNCHANGED <<topology, uuid, calls, arg, ret, phase, srv, busVars, emitterVars, routerVars>>

\* (mutant) the fallback is written when the flag is set, not when it is clear
TimeoutCheck_Inverted(r) ==
    /\ hpc[r] = "expired"
    /\ IF written[r]
         THEN /\ hpc' = [hpc EXCEPT ![r] = "fallback"]
              /\ UNCHANGED outcome
         ELSE Return(r, "timeout")
    /\ UNCHANGED <<req, globalResponseWriters, written, done, mu, sink, removed,
                   publishCalls>>
    /\ UNCHANGED <<topology, uuid, calls, arg, ret, phase, srv, busVars, emitterVars, routerVars>>

\* if !rw.written: read without rw.mu.  The value seen is the one in memory
\* at the time of the read; a read that races with WriteResponse setting the
\* flag sees it either before or after, which the interleaving of this step
\* with EmitMark gives.
TimeoutCheck(r) ==
    /\ hpc[r] = "expired"
    /\ IF ~written[r]
         THEN /\ hpc' = [hpc EXCEPT ![r] = "fallback"]
              /\ UNCHANGED outcome
         ELSE Return(r, "timeout")
    /\ UNCHANGED <<req, globalResponseWriters, written, done, mu, sink, removed,
                   publishCalls>>
    /\ UNCHANGED <<topology, uuid, calls, arg, ret, phase, srv, busVars, emitterVars, routerVars>>

\* w.WriteHeader(http.StatusOK); w.Write([]byte("Request processed"))
TimeoutWrite(r) ==
    /\ hpc[r] = "fallback"
    /\ sink' = [sink EXCEPT ![r] = Append(@, Fallback)]
    /\ Return(r, "timeout")
    /\ UNCHANGED <<req, globalResponseWriters, written, done, mu, removed, publishCalls>>
    /\ UNCHANGED <<topology, uuid, calls, arg, ret, phase, srv, busVars, emitterVars, routerVars>>

----------------------------------------------------------------------------
(* The event bus, as far as the programs use it *)

\* Publish of a response event by a subscriber: the bus hands it to the
\* emitter's subscription, or the call fails and the caller drops the error.
PublishResponse(n, evt, accepted) ==
    /\ respSeen' = respSeen \cup {evt}
    /\ IF accepted /\ delivered[evt.id] < MaxDeliveries
         THEN /\ respQ' = [respQ EXCEPT ![n] = Append(@, evt)]
              /\ delivered' = [delivered EXCEPT ![evt.id] = @ + 1]
         ELSE UNCHANGED <<respQ, delivered>>

\* At-least-once delivery: the bus hands a response event to the emitter again.
Redeliver(n, evt) ==
    /\ evt \in respSeen
    /\ delivered[evt.id] < MaxDeliveries
    /\ respQ' = [respQ EXCEPT ![n] = Append(@, evt)]
    /\ delivered' = [delivered EXCEPT ![evt.id] = @ + 1]
    /\ UNCHANGED <<reqQ, respSeen>>
    /\ UNCHANGED <<topology, uuid, calls, arg, ret, phase, srv, listenerVars, emitterVars, routerVars>>

\* A response event whose request ID no handler registered reaches the emitter
\* (TestClientEmitter_Emit_NoResponseWriter).
ForeignResponse(n) ==
    LET evt == ResponseEvent(ForeignID, StatusOK, ErrorBody("test")) IN
    /\ delivered[ForeignID] < MaxDeliveries
    /\ respQ' = [respQ EXCEPT ![n] = Append(@, evt)]
    /\ delivered' = [delivered EXCEPT ![ForeignID] = @ + 1]
    /\ UNCHANGED <<reqQ, respSeen>>
    /\ UNCHANGED <<topology, uuid, calls, arg, ret, phase, srv, listenerVars, emitterVars, routerVars>>

----------------------------------------------------------------------------
(* examples/http-echo: the echo loop over sub.Events() *)

\* (mutant) the echo leaves the request's body out
EchoText_NoBody(evt) ==
    <<"Echo: ", evt.method, " ", evt.path, "\n\nRequest ID: ", evt.id,
      "\nHeaders: ", evt.hop, "\nBody: ">>

\* fmt.Sprintf("Echo: %s %s\n\nRequest ID: %s\nHeaders: %v\nBody: %s", ...):
\* the text as a sequence of pieces, the request's body piece by piece.
EchoText(evt) ==
    <<"Echo: ", evt.method, " ", evt.path, "\n\nRequest ID: ", evt.id,
      "\nHeaders: ", evt.hop, "\nBody: ">> \o evt.body

\* bytes.Contains
Contains(s, t) ==
    \E i \in 0 .. (Len(s) - Len(t)) : SubSeq(s, i + 1, i + Len(t)) = t

\* "Echo: <method> <path> ... Request ID: <id> ... Body: <body>"
EchoBody(evt) ==
    [kind |-> "Echo", node |-> evt.adapter, hop |-> 0, of |-> evt.id,
     method |-> evt.method, path |-> evt.path, text |-> evt.body,
     echo |-> EchoText(evt)]

\* The response to a request event that does not decode: no request ID.
InvalidPayloadResponse ==
    ResponseEvent(0 - 1, StatusInternalServerError, ErrorBody("Invalid request payload"))

\* CreateEchoResponse: the response carries the request's ID, status 200 and
\* the request's method, path and body; a payload that does not decode gets
\* a 500 response.
CreateEchoResponse(evt) ==
    IF evt.ok THEN ResponseEvent(evt.id, StatusOK, EchoBody(evt))
    ELSE InvalidPayloadResponse

EchoLoop(n) ==
    /\ topology[n].impl = "echo"
    /\ reqQ[n] # <<>>
    /\ reqQ' = [reqQ EXCEPT ![n] = Tail(@)]
    /\ \E accepted \in BOOLEAN :
          PublishResponse(n, CreateEchoResponse(Head(reqQ[n])), accepted)
    /\ UNCHANGED <<topology, uuid, calls, arg, ret, phase, srv, listenerVars, emitterVars, routerVars>>

----------------------------------------------------------------------------
(* ClientEmitter.Emit and responseWriter.WriteResponse *)

EmitterNode(e) == e[1]

Returns(id, kind) == results' = [results EXCEPT ![id][kind] = @ + 1]

\* (mutant) the lookup returns the oldest pending handle, whatever the ID
GetResponseWriter_Oldest(n, id) ==
    IF DOMAIN globalResponseWriters[n] = {} THEN 0
    ELSE globalResponseWriters[n][CHOOSE x \in DOMAIN globalResponseWriters[n] :
                                     \A y \in DOMAIN globalResponseWriters[n] : x <= y]

\* GetResponseWriter
GetResponseWriter(n, id) ==
    IF Registered(n, id) THEN globalResponseWriters[n][id] ELSE 0

\* The emitter receives the next response event, decodes it and looks the
\* handle up; without a handle Emit returns "no response writer found".
EmitLookup(e) ==
    LET n == EmitterNode(e)
        evt == Head(respQ[n])
        rw == GetResponseWriter(n, evt.id)
    IN  /\ epc[e] = "idle"
        /\ phase[n] # "stopped"
        /\ respQ[n] # <<>>
        /\ respQ' = [respQ EXCEPT ![n] = Tail(@)]
        /\ IF rw = 0
             THEN /\ Returns(evt.id, "notfound")
                  /\ UNCHANGED <<epc, erw, eevt>>
             ELSE /\ epc' = [epc EXCEPT ![e] = "write"]
                  /\ erw' = [erw EXCEPT ![e] = rw]
                  /\ eevt' = [eevt EXCEPT ![e] = evt]
                  /\ UNCHANGED results
        /\ UNCHANGED <<reqQ, delivered, respSeen>>
        /\ UNCHANGED <<topology, uuid, calls, arg, ret, phase, srv, listenerVars, routerVars>>

\* (mutant) the written flag is not consulted
AlreadyWritten_Never(rw) == FALSE

\* if rw.written
AlreadyWritten(rw) == written[rw]

EmitDone(e) ==
    /\ epc' = [epc EXCEPT ![e] = "idle"]
    /\ erw' = [erw EXCEPT ![e] = 0]
    /\ eevt' = [eevt EXCEPT ![e] = NoEvent]

\* (mutant) a failed body write closes done all the same
EmitWrite_CloseOnError(e) ==
    LET rw == erw[e]
        evt == eevt[e]
    IN  /\ epc[e] = "write"
        /\ mu[rw] = NoEmitter
        /\ \/ /\ AlreadyWritten(rw)
              /\ Returns(evt.id, "already")
              /\ EmitDone(e)
              /\ UNCHANGED <<sink, mu, done>>
           \/ /\ ~AlreadyWritten(rw)
              /\ sink' = [sink EXCEPT ![rw] =
                            Append(@, Written("emitter", evt.status, evt.body, FALSE))]
              /\ done' = [done EXCEPT ![rw] = TRUE]
              /\ Returns(evt.id, "writeerr")
              /\ EmitDone(e)
              /\ UNCHANGED mu
           \/ /\ ~AlreadyWritten(rw)
              /\ sink' = [sink EXCEPT ![rw] =
                            Append(@, Written("emitter", evt.status, evt.body, TRUE))]
              /\ mu' = [mu EXCEPT ![rw] = e]
              /\ epc' = [epc EXCEPT ![e] = "mark"]
              /\ UNCHANGED <<erw, eevt, results, done>>
        /\ UNCHANGED <<hpc, req, outcome, globalResponseWriters, written,
                       removed, publishCalls>>
        /\ UNCHANGED <<topology, uuid, calls, arg, ret, phase, srv, busVars, routerVars>>

\* WriteResponse from rw.mu.Lock() to the body write: "response already
\* written" when the flag is set; otherwise headers, status line and body go
\* to the connection; a failed body write returns the error with the flag
\* untouched.  With the body written the call still holds rw.mu.
EmitWrite(e) ==
    LET rw == erw[e]
        evt == eevt[e]
    IN  /\ epc[e] = "write"
        /\ mu[rw] = NoEmitter
        /\ \/ /\ AlreadyWritten(rw)
              /\ Returns(evt.id, "already")
              /\ EmitDone(e)
              /\ UNCHANGED <<sink, mu>>
           \/ /\ ~AlreadyWritten(rw)
              /\ sink' = [sink EXCEPT ![rw] =
                            Append(@, Written("emitter", evt.status, evt.body, FALSE))]
              /\ Returns(evt.id, "writeerr")
              /\ EmitDone(e)
              /\ UNCHANGED mu
           \/ /\ ~AlreadyWritten(rw)
              /\ sink' = [sink EXCEPT ![rw] =
                            Append(@, Written("emitter", evt.status, evt.body, TRUE))]
              /\ mu' = [mu EXCEPT ![rw] = e]
              /\ epc' = [epc EXCEPT ![e] = "mark"]
              /\ UNCHANGED <<erw, eevt, results>>
        /\ UNCHANGED <<hpc, req, outcome, globalResponseWriters, written, done,
                       removed, publishCalls>>
        /\ UNCHANGED <<topology, uuid, calls, arg, ret, phase, srv, busVars, routerVars>>

\* (mutant) done is closed but the written flag is left false
EmitMark_NoFlag(e) ==
    LET rw == erw[e] IN
    /\ epc[e] = "mark"
    /\ done' = [done EXCEPT ![rw] = TRUE]
    /\ mu' = [mu EXCEPT ![rw] = NoEmitter]
    /\ Returns(eevt[e].id, "ok")
    /\ EmitDone(e)
    /\ UNCHANGED <<hpc, req, outcome, globalResponseWriters, written, sink, removed,
                   publishCalls>>
    /\ UNCHANGED <<topology, uuid, calls, arg, ret, phase, srv, busVars, routerVars>>

\* rw.written = true; close(rw.done); return nil (rw.mu released)
EmitMark(e) ==
    LET rw == erw[e] IN
    /\ epc[e] = "mark"
    /\ written' = [written EXCEPT ![rw] = TRUE]
    /\ done' = [done EXCEPT ![rw] = TRUE]
    /\ mu' = [mu EXCEPT ![rw] = NoEmitter]
    /\ Returns(eevt[e].id, "ok")
    /\ EmitDone(e)
    /\ UNCHANGED <<hpc, req, outcome, globalResponseWriters, sink, removed, publishCalls>>
    /\ UNCHANGED <<topology, uuid, calls, arg, ret, phase, srv, busVars, routerVars>>

----------------------------------------------------------------------------
(* strconv.Atoi and strconv.Itoa on the X-Hop-Count header, a string of   *)
(* characters                                                              *)

DigitChars == <<"0", "1", "2", "3", "4", "5", "6", "7", "8", "9">>

IsDigit(c) == \E d \in DOMAIN DigitChars : DigitChars[d] = c
DigitOf(c) == (CHOOSE d \in DOMAIN DigitChars : DigitChars[d] = c) - 1

RECURSIVE NatOf(_)
NatOf(ds) ==
    IF ds = <<>> THEN 0
    ELSE 10 * NatOf(SubSeq(ds, 1, Len(ds) - 1)) + DigitOf(ds[Len(ds)])

MaxInt == 2 ^ (IntBits - 1) - 1
MinInt == 0 - 2 ^ (IntBits - 1)

\* Two's complement: what an int holds after an addition
Wrap(x) == ((x - MinInt) % (2 ^ IntBits)) + MinInt

\* Atoi: an optional sign, then one or more decimal digits; anything else,
\* and a value that does not fit an int, is an error.
Atoi(s) ==
    LET signed == s # <<>> /\ s[1] \in {"+", "-"}
        ds == IF signed THEN Tail(s) ELSE s
        v == IF signed /\ s[1] = "-" THEN 0 - NatOf(ds) ELSE NatOf(ds)
    IN  IF ds = <<>> \/ \E i \in DOMAIN ds : ~IsDigit(ds[i])
          THEN [ok |-> FALSE, val |-> 0]
          ELSE IF v < MinInt \/ v > MaxInt
                 THEN [ok |-> FALSE, val |-> 0]
                 ELSE [ok |-> TRUE, val |-> v]

RECURSIVE NatStr(_)
NatStr(n) ==
    IF n < 10 THEN <<DigitChars[n + 1]>>
    ELSE Append(NatStr(n \div 10), DigitChars[(n % 10) + 1])

Itoa(n) == IF n < 0 THEN <<"-">> \o NatStr(0 - n) ELSE NatStr(n)

\* hopCount := 1; with an X-Hop-Count header that Atoi accepts, h + 1.
\* (An empty header value fails Atoi and so counts like an absent header.)
HopCount(h) ==
    IF h # NoHeader /\ Atoi(h).ok THEN Wrap(Atoi(h).val + 1) ELSE 1

----------------------------------------------------------------------------
(* The relay router: examples/relay-node (a pool of workers, impl "pool") *)
(* and the single-loop relay node (impl "loop")                           *)

ExternalHop == "external"   \* a next hop outside the modelled nodes
ExternalHop2 == "external-2" \* another one
ExternalHops == {ExternalHop, ExternalHop2}

NoStats == [received |-> 0, forwarded |-> 0, dropped |-> 0, errors |-> 0]

IsRelay(n) == topology[n].impl \in {"pool", "loop"}

WorkerNode(w) == w[1]

\* (mutant) an unknown adapter_id falls back to the last route
RouteIndex_Last(n, adapterID) ==
    IF \E i \in DOMAIN routesInOrder[n] : routesInOrder[n][i].id = adapterID
      THEN CHOOSE i \in DOMAIN routesInOrder[n] : routesInOrder[n][i].id = adapterID
      ELSE Len(routesInOrder[n])

\* route, ok := adapterRoutes[adapterID]; if !ok { route = routesInOrder[0] }
RouteIndex(n, adapterID) ==
    IF \E i \in DOMAIN routesInOrder[n] : routesInOrder[n][i].id = adapterID
      THEN CHOOSE i \in DOMAIN routesInOrder[n] : routesInOrder[n][i].id = adapterID
      ELSE 1

\* totalStats.<c>.Add(1); route.stats.<c>.Add(1), for each counter in cs
Count(n, i, cs) ==
    /\ stats' = [stats EXCEPT ![n][i] =
                   [c \in DOMAIN @ |-> IF c \in cs THEN @[c] + 1 ELSE @[c]]]
    /\ totalStats' = [totalStats EXCEPT ![n] =
                   [c \in DOMAIN @ |-> IF c \in cs THEN @[c] + 1 ELSE @[c]]]

Decision(n, i, hc, verdict) == [node |-> n, route |-> i, hop |-> hc, verdict |-> verdict]

WorkerIdle(w) ==
    /\ wpc' = [wpc EXCEPT ![w] = "idle"]
    /\ wevt' = [wevt EXCEPT ![w] = NoEvent]
    /\ wroute' = [wroute EXCEPT ![w] = 0]
    /\ whop' = [whop EXCEPT ![w] = 0]

\* (mutant) receiving leaves the event on the subscription for the others
WorkerTake_Peek(w) ==
    LET n == WorkerNode(w) IN
    /\ IsRelay(n)
    /\ wpc[w] = "idle"
    /\ reqQ[n] # <<>>
    /\ wevt' = [wevt EXCEPT ![w] = Head(reqQ[n])]
    /\ wpc' = [wpc EXCEPT ![w] = "recv"]
    /\ UNCHANGED <<reqQ, respQ, delivered, respSeen>>
    /\ UNCHANGED <<routesInOrder, stats, totalStats, wroute, whop, forwards, evlog,
                   replies>>
    /\ UNCHANGED <<topology, uuid, calls, arg, ret, phase, srv, listenerVars, emitterVars>>

\* for evt := range sub.Events(): one worker receives the event
WorkerTake(w) ==
    LET n == WorkerNode(w) IN
    /\ IsRelay(n)
    /\ wpc[w] = "idle"
    /\ reqQ[n] # <<>>
    /\ reqQ' = [reqQ EXCEPT ![n] = Tail(@)]
    /\ wevt' = [wevt EXCEPT ![w] = Head(reqQ[n])]
    /\ wpc' = [wpc EXCEPT ![w] = "recv"]
    /\ UNCHANGED <<respQ, delivered, respSeen>>
    /\ UNCHANGED <<routesInOrder, stats, totalStats, wroute, whop, forwards, evlog,
                   replies>>
    /\ UNCHANGED <<topology, uuid, calls, arg, ret, phase, srv, listenerVars, emitterVars>>

\* (mutant) an event that does not decode is counted as dropped as well
ProcessReceive_AlsoDropped(w) ==
    LET n == WorkerNode(w)
        evt == wevt[w]
        i == RouteIndex(n, evt.adapter)
    IN  /\ wpc[w] = "recv"
        /\ IF ~evt.ok
             THEN /\ Count(n, i, {"received", "errors", "dropped"})
                  /\ evlog' = [evlog EXCEPT ![evt.id] =
                                 Append(@, Decision(n, i, 0, "undecodable"))]
                  /\ WorkerIdle(w)
             ELSE /\ Count(n, i, {"received"})
                  /\ wpc' = [wpc EXCEPT ![w] = "decoded"]
                  /\ wroute' = [wroute EXCEPT ![w] = i]
                  /\ whop' = [whop EXCEPT ![w] = HopCount(evt.hop)]
                  /\ UNCHANGED <<wevt, evlog>>
        /\ UNCHANGED <<routesInOrder, forwards, replies>>
        /\ UNCHANGED <<topology, uuid, calls, arg, ret, phase, srv, listenerVars, busVars, emitterVars>>

\* (mutant) an event that does not decode is counted as an error only
ProcessReceive_ErrorOnly(w) ==
    LET n == WorkerNode(w)
        evt == wevt[w]
        i == RouteIndex(n, evt.adapter)
    IN  /\ wpc[w] = "recv"
        /\ IF ~evt.ok
             THEN /\ Count(n, i, {"errors"})
                  /\ evlog' = [evlog EXCEPT ![evt.id] =
                                 Append(@, Decision(n, i, 0, "undecodable"))]
                  /\ WorkerIdle(w)
             ELSE /\ Count(n, i, {"received"})
                  /\ wpc' = [wpc EXCEPT ![w] = "decoded"]
                  /\ wroute' = [wroute EXCEPT ![w] = i]
                  /\ whop' = [whop EXCEPT ![w] = HopCount(evt.hop)]
                  /\ UNCHANGED <<wevt, evlog>>
        /\ UNCHANGED <<routesInOrder, forwards, replies>>
        /\ UNCHANGED <<topology, uuid, calls, arg, ret, phase, srv, listenerVars, busVars, emitterVars>>

\* The route is resolved and received counted; an event whose payload does
\* not decode counts as an error and processing ends; otherwise hopCount is
\* computed from the payload's headers.
ProcessReceive(w) ==
    LET n == WorkerNode(w)
        evt == wevt[w]
        i == RouteIndex(n, evt.adapter)
    IN  /\ wpc[w] = "recv"
        /\ IF ~evt.ok
             THEN /\ Count(n, i, {"received", "errors"})
                  /\ evlog' = [evlog EXCEPT ![evt.id] =
                                 Append(@, Decision(n, i, 0, "undecodable"))]
                  /\ WorkerIdle(w)
             ELSE /\ Count(n, i, {"received"})
                  /\ wpc' = [wpc EXCEPT ![w] = "decoded"]
                  /\ wroute' = [wroute EXCEPT ![w] = i]
                  /\ whop' = [whop EXCEPT ![w] = HopCount(evt.hop)]
                  /\ UNCHANGED <<wevt, evlog>>
        /\ UNCHANGED <<routesInOrder, forwards, replies>>
        /\ UNCHANGED <<topology, uuid, calls, arg, ret, phase, srv, listenerVars, busVars, emitterVars>>

MaxHopsBody(n) == [kind |-> "Max hops reached at", node |-> n, hop |-> 0, of |-> 0]
AckBody(n, hc) == [kind |-> "Relayed by", node |-> n, hop |-> hc, of |-> 0]

\* relay-node: the response published on the drop path
MaxHopsResponse(n, evt) == ResponseEvent(evt.id, StatusOK, MaxHopsBody(n))

\* single-loop relay: the response published on the drop path.  The result
\* of createResponse(payload, "Max hops exceeded at node ...") is discarded
\* and the response built by CreateEchoResponse(evt) is published.
DropResponse(n, evt) ==
    IF topology[n].impl = "pool" THEN MaxHopsResponse(n, evt)
    ELSE CreateEchoResponse(evt)

\* The acknowledgement: status 200, X-Relay-Node, X-Hop-Count, "Relayed by
\* <node> (hop <n>)".
AckResponse(n, evt, hc) == ResponseEvent(evt.id, StatusOK, AckBody(n, hc))

\* eng.ExternalBus().Publish(ctx, respEvt) by the router: the error, if any,
\* is dropped or logged.
RouterPublish(n, evt) ==
    /\ replies' = [replies EXCEPT ![evt.id] = Append(@, evt)]
    /\ \E accepted \in BOOLEAN : PublishResponse(n, evt, accepted)

\* (mutant) the forwarded request keeps the X-Hop-Count it came in with
Forward_StaleHop(n, i, evt, hc) ==
    [id |-> evt.id, node |-> n, route |-> i, hop |-> hc, header |-> evt.hop,
     state |-> "spawned", peer |-> 0, status |-> 0]

\* go func(p, hc, r) { forwardRequest(r.nextHop, p, hc, nodeName) ... }
Forward(n, i, evt, hc) ==
    [id |-> evt.id, node |-> n, route |-> i, hop |-> hc, header |-> Itoa(hc),
     state |-> "spawned", peer |-> 0, status |-> 0]

\* (mutant) the hop limit is never reached
ExceedsMaxHops_Never(n, hc) == FALSE

\* if hopCount > maxHops
ExceedsMaxHops(n, hc) == hc > topology[n].maxHops

\* The hop decision.  Over the limit: dropped is counted, the drop response
\* is published and processing ends.  Otherwise the forward goroutine is
\* started and processing goes on to the acknowledgement.
ProcessHop(w) ==
    LET n == WorkerNode(w)
        evt == wevt[w]
        i == wroute[w]
        hc == whop[w]
    IN  /\ wpc[w] = "decoded"
        /\ IF ExceedsMaxHops(n, hc)
             THEN /\ Count(n, i, {"dropped"})
                  /\ RouterPublish(n, DropResponse(n, evt))
                  /\ evlog' = [evlog EXCEPT ![evt.id] =
                                 Append(@, Decision(n, i, hc, "drop"))]
                  /\ WorkerIdle(w)
                  /\ UNCHANGED forwards
             ELSE /\ forwards' = Append(forwards, Forward(n, i, evt, hc))
                  /\ evlog' = [evlog EXCEPT ![evt.id] =
                                 Append(@, Decision(n, i, hc, "forward"))]
                  /\ wpc' = [wpc EXCEPT ![w] = "spawned"]
                  /\ UNCHANGED <<stats, totalStats, wevt, wroute, whop, replies>>
                  /\ UNCHANGED <<respQ, delivered, respSeen>>
        /\ UNCHANGED <<reqQ, routesInOrder>>
        /\ UNCHANGED <<topology, uuid, calls, arg, ret, phase, srv, listenerVars, emitterVars>>

\* (mutant) the acknowledgement is published once the forward has returned
ProcessAck_AfterForward(w) ==
    LET n == WorkerNode(w) IN
    /\ wpc[w] = "spawned"
    /\ \A f \in DOMAIN forwards :
          forwards[f].id = wevt[w].id => forwards[f].state \in {"ok", "err"}
    /\ RouterPublish(n, AckResponse(n, wevt[w], whop[w]))
    /\ WorkerIdle(w)
    /\ UNCHANGED <<reqQ, routesInOrder, stats, totalStats, forwards, evlog>>
    /\ UNCHANGED <<topology, uuid, calls, arg, ret, phase, srv, listenerVars, emitterVars>>

\* The acknowledgement is built and published, whatever the forward
\* goroutine is doing, and processEvent returns.
ProcessAck(w) ==
    LET n == WorkerNode(w) IN
    /\ wpc[w] = "spawned"
    /\ RouterPublish(n, AckResponse(n, wevt[w], whop[w]))
    /\ WorkerIdle(w)
    /\ UNCHANGED <<reqQ, routesInOrder, stats, totalStats, forwards, evlog>>
    /\ UNCHANGED <<topology, uuid, calls, arg, ret, phase, srv, listenerVars, emitterVars>>

----------------------------------------------------------------------------
(* forwardRequest, in its goroutine *)

NextHop(f) == routesInOrder[forwards[f].node][forwards[f].route].nextHop

FreeSlots == {r \in DOMAIN hpc : hpc[r] = "idle"}

\* relayClient.Do sends the POST with X-Hop-Count = Itoa(hopCount).  At a
\* modelled next hop net/http accepts it and calls handleRequest.
ForwardSend(f) ==
    /\ forwards[f].state = "spawned"
    /\ IF NextHop(f) \in ExternalHops
         THEN /\ forwards' = [forwards EXCEPT ![f].state = "sent"]
              /\ UNCHANGED <<hpc, req>>
         ELSE /\ srv[NextHop(f)].running
              /\ FreeSlots # {}
              /\ LET r == CHOOSE x \in FreeSlots : \A y \in FreeSlots : x <= y IN
                 /\ hpc' = [hpc EXCEPT ![r] = "accepted"]
                 /\ req' = [req EXCEPT ![r] = [adapter |-> NextHop(f),
                                               hop |-> forwards[f].header,
                                               from |-> f]]
                 /\ forwards' = [forwards EXCEPT ![f].state = "sent", ![f].peer = r]
    /\ UNCHANGED <<outcome, globalResponseWriters, written, done, mu, sink,
                   removed, publishCalls>>
    /\ UNCHANGED <<routesInOrder, stats, totalStats, wpc, wevt, wroute, whop,
                   evlog, replies>>
    /\ UNCHANGED <<topology, uuid, calls, arg, ret, phase, srv, busVars, emitterVars>>

\* (mutant) a failed forward takes the route's next hop out of the table
ForwardError_Unroute(f) ==
    /\ forwards[f].state \in {"spawned", "sent"}
    /\ forwards' = [forwards EXCEPT ![f].state = "err"]
    /\ Count(forwards[f].node, forwards[f].route, {"errors"})
    /\ routesInOrder' = [routesInOrder EXCEPT
                            ![forwards[f].node][forwards[f].route].nextHop = "-"]
    /\ UNCHANGED <<wpc, wevt, wroute, whop, evlog, replies>>
    /\ UNCHANGED <<topology, uuid, calls, arg, ret, phase, srv, listenerVars, busVars, emitterVars>>

\* relayClient.Do returns an error (connection refused, reset, or the
\* client's 10 s timeout): errors is counted.
ForwardError(f) ==
    /\ forwards[f].state \in {"spawned", "sent"}
    /\ forwards' = [forwards EXCEPT ![f].state = "err"]
    /\ Count(forwards[f].node, forwards[f].route, {"errors"})
    /\ UNCHANGED <<routesInOrder, wpc, wevt, wroute, whop, evlog, replies>>
    /\ UNCHANGED <<topology, uuid, calls, arg, ret, phase, srv, listenerVars, busVars, emitterVars>>

\* The status the forward is judged by: relay-node takes any response as
\* success; the single-loop relay requires 200.
ForwardSucceeds(n, status) ==
    topology[n].impl = "pool" \/ status = StatusOK

\* relayClient.Do returns a response, which is there once the next hop's
\* handler has written one and returned; the body is discarded.
ForwardResponse(f, status) ==
    LET n == forwards[f].node
        r == forwards[f].peer
    IN  /\ forwards[f].state = "sent"
        /\ IF r = 0 THEN TRUE
           ELSE /\ hpc[r] = "returned"
                /\ sink[r] # <<>>
                /\ status = sink[r][1].status
        /\ IF ForwardSucceeds(n, status)
             THEN /\ forwards' = [forwards EXCEPT ![f].state = "ok",
                                                  ![f].status = status]
                  /\ Count(n, forwards[f].route, {"forwarded"})
             ELSE /\ forwards' = [forwards EXCEPT ![f].state = "err",
                                                  ![f].status = status]
                  /\ Count(n, forwards[f].route, {"errors"})
        /\ UNCHANGED <<routesInOrder, wpc, wevt, wroute, whop, evlog, replies>>
        /\ UNCHANGED <<topology, uuid, calls, arg, ret, phase, srv, listenerVars, busVars, emitterVars>>

----------------------------------------------------------------------------
(* The echo server: one ServerAdapter, the echo loop, one ClientEmitter *)

Requests == 1 .. NumRequests
EchoEmitters == {"S"} \X (1 .. NumEmitters)
HopHeaders == {NoHeader}

\* The routes built at startup from ADAPTER_PORTS and NEXT_HOPS, one per
\* adapter, in order.
RoutesOf(cfg) ==
    IF cfg.impl = "echo" THEN <<>>
    ELSE [i \in DOMAIN cfg.adapters |->
            [id |-> cfg.adapters[i], nextHop |-> cfg.nextHops[i]]]

\* WORKER_COUNT workers on a relay node; the echo server has no router.
WorkersOf(topo) ==
    UNION {{n} \X (1 .. (IF topo[n].impl = "echo" THEN 0 ELSE topo[n].workers)) :
             n \in DOMAIN topo}

AdaptersOf(topo) ==
    UNION {{topo[n].adapters[i] : i \in DOMAIN topo[n].adapters} : n \in DOMAIN topo}

\* The state after startup, for the IDs uuid.New() is going to return.
InitState(topo, requests, emitters) ==
    /\ topology = topo
    /\ hpc = [r \in requests |-> "idle"]
    /\ req = [r \in requests |-> [adapter |-> "-", hop |-> NoHeader, from |-> 0]]
    /\ outcome = [r \in requests |-> "none"]
    /\ globalResponseWriters = [n \in DOMAIN topo |-> <<>>]
    /\ written = [r \in requests |-> FALSE]
    /\ done = [r \in requests |-> FALSE]
    /\ mu = [r \in requests |-> NoEmitter]
    /\ sink = [r \in requests |-> <<>>]
    /\ removed = [r \in requests |-> 0]
    /\ publishCalls = [r \in requests |-> 0]
    /\ reqQ = [n \in DOMAIN topo |-> <<>>]
    /\ respQ = [n \in DOMAIN topo |-> <<>>]
    /\ delivered = [i \in {ForeignID} \cup {RequestID(r) : r \in requests} |-> 0]
    /\ respSeen = {}
    /\ epc = [e \in emitters |-> "idle"]
    /\ erw = [e \in emitters |-> 0]
    /\ eevt = [e \in emitters |-> NoEvent]
    /\ results = [i \in {ForeignID} \cup {RequestID(r) : r \in requests} |->
                    [k \in ResultKinds |-> 0]]
    /\ routesInOrder = [n \in DOMAIN topo |-> RoutesOf(topo[n])]
    /\ stats = [n \in DOMAIN topo |-> [i \in DOMAIN RoutesOf(topo[n]) |-> NoStats]]
    /\ totalStats = [n \in DOMAIN topo |-> NoStats]
    /\ wpc = [w \in WorkersOf(topo) |-> "idle"]
    /\ wevt = [w \in WorkersOf(topo) |-> NoEvent]
    /\ wroute = [w \in WorkersOf(topo) |-> 0]
    /\ whop = [w \in WorkersOf(topo) |-> 0]
    /\ forwards = <<>>
    /\ evlog = [i \in {ForeignID} \cup {RequestID(r) : r \in requests} |-> <<>>]
    /\ replies = [i \in {ForeignID} \cup {RequestID(r) : r \in requests} |-> <<>>]
    /\ phase = [n \in DOMAIN topo |-> "running"]
    /\ calls = [a \in AdaptersOf(topo) |-> <<>>]
    /\ ret = <<>>

\* adapterMgr.Start() has started every adapter on the engine's external bus.
AllStarted(topo) ==
    [a \in AdaptersOf(topo) |-> Started(NewServerAdapter, "external", "system")]

\* uuid.New() gives every request an ID of its own.
FreshIDs(requests) == [r \in requests |-> r]

InitWith(topo, requests, emitters) ==
    /\ uuid = FreshIDs(requests)
    /\ srv = AllStarted(topo)
    /\ arg = <<>>
    /\ InitState(topo, requests, emitters)

EchoTopology == [n \in {"S"} |-> [impl |-> "echo", adapters |-> <<"http-server-:8080">>]]

Init == InitWith(EchoTopology, Requests, EchoEmitters)

Listener(r) ==
    \/ HandleReadError(r)
    \/ HandleEventError(r)
    \/ HandleRegister(r)
    \/ PublishOK(r)
    \/ PublishFail(r)
    \/ WaitDone(r)
    \/ WaitTimeout(r)
    \/ TimeoutCheck(r)
    \/ TimeoutWrite(r)

Emitter(e) ==
    \/ EmitLookup(e)
    \/ EmitWrite(e)
    \/ EmitMark(e)

Next ==
    \/ \E r \in Requests : ClientSend(r, "http-server-:8080", NoHeader)
    \/ \E r \in Requests : Listener(r)
    \/ EchoLoop("S")
    \/ \E evt \in respSeen : Redeliver("S", evt)
    \/ ForeignResponse("S")
    \/ \E e \in EchoEmitters : Emitter(e)

Spec == Init /\ [][Next]_vars

\* The echo server when uuid.New() may return an ID it has returned before.
CollisionInit ==
    /\ uuid \in [Requests -> Requests]
    /\ srv = AllStarted(EchoTopology)
    /\ arg = <<>>
    /\ InitState(EchoTopology, Requests, EchoEmitters)

CollisionSpec == CollisionInit /\ [][Next]_vars

\* Goroutines are scheduled fairly and timers fire: a handleRequest flow that
\* can take a step eventually takes one, and so does an Emit call.
FairSpec ==
    /\ Spec
    /\ \A r \in Requests : WF_vars(Listener(r))
    /\ \A e \in EchoEmitters : WF_vars(Emitter(e))

----------------------------------------------------------------------------
(* One relay node whose next hops lie outside the model *)

RelayRequests == 1 .. NumRelayRequests
RelayEmitters == {"R"} \X {1}

\* relay-node with two adapters and a pool of workers
RelayPool ==
    [n \in {"R"} |->
       [impl |-> "pool",
        adapters |-> <<"http-server-:8080", "http-server-:8081">>,
        nextHops |-> <<ExternalHop, ExternalHop2>>,
        maxHops |-> RelayMaxHops,
        workers |-> NumWorkers]]

\* the single-loop relay: one adapter, one loop over sub.Events()
RelayLoop ==
    [n \in {"R"} |->
       [impl |-> "loop",
        adapters |-> <<"http-server-:8080">>,
        nextHops |-> <<ExternalHop>>,
        maxHops |-> RelayMaxHops,
        workers |-> 1]]

\* X-Hop-Count as clients send it: absent, not a number, one hop below the
\* limit, at the limit.
RelayHopHeaders == {NoHeader, <<"x">>, Itoa(RelayMaxHops - 1), Itoa(RelayMaxHops)}

RelayInit ==
    \E topo \in {RelayPool, RelayLoop} : InitWith(topo, RelayRequests, RelayEmitters)

\* A request event that no adapter of the node published reaches the
\* router: its adapter_id names no route and its payload may not decode.
\* A closed subscription does not admit it.
ForeignRequest(n, h, ok) ==
    /\ IsRelay(n)
    /\ phase[n] = "running"
    /\ evlog[ForeignID] = <<>>
    /\ \A i \in DOMAIN reqQ[n] : reqQ[n][i].id # ForeignID
    /\ \A w \in DOMAIN wpc : wevt[w].id # ForeignID
    /\ reqQ' = [reqQ EXCEPT ![n] =
                  Append(@, [id |-> ForeignID, adapter |-> "unknown", hop |-> h,
                             ok |-> ok, method |-> "POST", path |-> "/",
                             body |-> <<>>])]
    /\ UNCHANGED <<respQ, delivered, respSeen>>
    /\ UNCHANGED <<topology, uuid, calls, arg, ret, phase, srv, listenerVars, emitterVars, routerVars>>

Worker(w) ==
    /\ w \in DOMAIN wpc
    /\ \/ WorkerTake(w)
       \/ ProcessReceive(w)
       \/ ProcessHop(w)
       \/ ProcessAck(w)

Statuses == {StatusOK, StatusBadRequest, StatusInternalServerError}

ForwardCall(f) ==
    /\ f \in DOMAIN forwards
    /\ \/ ForwardSend(f)
       \/ ForwardError(f)
       \/ \E status \in Statuses : ForwardResponse(f, status)

RelayNext ==
    \/ \E r \in RelayRequests, h \in RelayHopHeaders :
          \E i \in DOMAIN topology["R"].adapters :
             ClientSend(r, topology["R"].adapters[i], h)
    \/ \E r \in RelayRequests : Listener(r)
    \/ \E h \in RelayHopHeaders, ok \in BOOLEAN : ForeignRequest("R", h, ok)
    \/ \E w \in DOMAIN wpc : Worker(w)
    \/ \E f \in DOMAIN forwards : ForwardCall(f)
    \/ \E e \in RelayEmitters : Emitter(e)

RelaySpec == RelayInit /\ [][RelayNext]_vars

\* Goroutines are scheduled fairly: workers, listener flows and Emit calls
\* take the steps they can take.  Nothing is assumed of the forwards, whose
\* next hop may never answer.
RelayFairSpec ==
    /\ RelaySpec
    /\ \A w \in {"R"} \X (1 .. NumWorkers) : WF_vars(Worker(w))
    /\ \A r \in RelayRequests : WF_vars(Listener(r))
    /\ \A e \in RelayEmitters : WF_vars(Emitter(e))

----------------------------------------------------------------------------
(* Three relay nodes in a ring: A -> B -> C -> A *)

RingNodes == {"A", "B", "C"}
RingAdapter(n) == "http-server-" \o n
\* (mutant) the ring is wired the other way round
RingNextNode_Reversed(n) == CASE n = "A" -> "C" [] n = "C" -> "B" [] n = "B" -> "A"

\* NEXT_HOP of each node
RingNextNode(n) == CASE n = "A" -> "B" [] n = "B" -> "C" [] n = "C" -> "A"

\* Connections the ring accepts: one client request and the hops it makes
\* until it is dropped.
RingRequests == 1 .. (RingMaxHops + 1)
RingEmitters == RingNodes \X {1}
RingWorkers == RingNodes \X {1}

RingTopology ==
    [n \in RingNodes |->
       [impl |-> "pool",
        adapters |-> <<RingAdapter(n)>>,
        nextHops |-> <<RingAdapter(RingNextNode(n))>>,
        maxHops |-> RingMaxHops,
        workers |-> 1]]

RingInit == InitWith(RingTopology, RingRequests, RingEmitters)

\* A client calls node A without X-Hop-Count, while the connections left
\* can hold all the hops of its request.
RingClientSend(r) ==
    /\ Cardinality(FreeSlots) >= RingMaxHops + 1
    /\ ClientSend(r, RingAdapter("A"), NoHeader)

RingNext ==
    \/ \E r \in RingRequests : RingClientSend(r)
    \/ \E r \in RingRequests : Listener(r)
    \/ \E w \in RingWorkers : Worker(w)
    \/ \E f \in RingRequests : ForwardCall(f)
    \/ \E e \in RingEmitters : Emitter(e)

RingSpec == RingInit /\ [][RingNext]_vars

\* Goroutines are scheduled fairly and timers fire: the 30 s timer of a
\* waiting handleRequest flow and the 10 s timeout of relayClient.
RingFairSpec ==
    /\ RingSpec
    /\ \A r \in RingRequests : WF_vars(Listener(r))
    /\ \A w \in RingWorkers : WF_vars(Worker(w))
    /\ \A f \in RingRequests : WF_vars(ForwardCall(f))
    /\ \A e \in RingEmitters : WF_vars(Emitter(e))

----------------------------------------------------------------------------
(* The lifecycle of ServerAdapter: Start and Stop called in any order *)

MaxCalls == 3          \* Start and Stop calls made on one adapter

Buses == {"external", "internal"}
Clocks == {"system", "mock"}

\* (mutant) Start without the running check
Start_Restart(a, bus, clk) ==
    /\ Len(calls[a]) < MaxCalls
    /\ srv' = [srv EXCEPT ![a] = Started(@, bus, clk)]
    /\ calls' = [calls EXCEPT ![a] = Append(@, StartCall(bus, clk, NoError))]
    /\ UNCHANGED <<topology, uuid, arg, ret, phase, listenerVars, busVars, emitterVars, routerVars>>

\* ServerAdapter.Start
Start(a, bus, clk) ==
    /\ Len(calls[a]) < MaxCalls
    /\ IF srv[a].running
         THEN /\ calls' = [calls EXCEPT ![a] = Append(@, StartCall(bus, clk, AlreadyRunning))]
              /\ UNCHANGED srv
         ELSE /\ srv' = [srv EXCEPT ![a] = Started(@, bus, clk)]
              /\ calls' = [calls EXCEPT ![a] = Append(@, StartCall(bus, clk, NoError))]
    /\ UNCHANGED <<topology, uuid, arg, ret, phase, listenerVars, busVars, emitterVars, routerVars>>

\* (mutant) Stop leaves running set when Shutdown returns an error
Stop_KeepOnError(a, err) ==
    /\ Len(calls[a]) < MaxCalls
    /\ IF ~srv[a].running
         THEN /\ err = NoError
              /\ calls' = [calls EXCEPT ![a] = Append(@, StopCall(NoError))]
              /\ UNCHANGED srv
         ELSE /\ srv' = [srv EXCEPT ![a] = IF err = NoError THEN Stopped(@) ELSE @]
              /\ calls' = [calls EXCEPT ![a] = Append(@, StopCall(err))]
    /\ UNCHANGED <<topology, uuid, arg, ret, phase, listenerVars, busVars, emitterVars, routerVars>>

\* (mutant) Stop without the running check
Stop_Unchecked(a, err) ==
    /\ Len(calls[a]) < MaxCalls
    /\ srv' = [srv EXCEPT ![a] = Stopped(@)]
    /\ calls' = [calls EXCEPT ![a] = Append(@, StopCall(err))]
    /\ UNCHANGED <<topology, uuid, arg, ret, phase, listenerVars, busVars, emitterVars, routerVars>>

\* ServerAdapter.Stop; err is what a.server.Shutdown returns
Stop(a, err) ==
    /\ Len(calls[a]) < MaxCalls
    /\ IF ~srv[a].running
         THEN /\ err = NoError
              /\ calls' = [calls EXCEPT ![a] = Append(@, StopCall(NoError))]
              /\ UNCHANGED srv
         ELSE /\ srv' = [srv EXCEPT ![a] = Stopped(@)]
              /\ calls' = [calls EXCEPT ![a] = Append(@, StopCall(err))]
    /\ UNCHANGED <<topology, uuid, arg, ret, phase, listenerVars, busVars, emitterVars, routerVars>>

\* Two adapters as NewServerAdapter returns them, before any Start.
LifecycleInit ==
    /\ uuid = FreshIDs({})
    /\ srv = [a \in AdaptersOf(RelayPool) |-> NewServerAdapter]
    /\ arg = <<>>
    /\ InitState(RelayPool, {}, {})

LifecycleNext ==
    \/ \E a \in DOMAIN srv, bus \in Buses, clk \in Clocks : Start(a, bus, clk)
    \/ \E a \in DOMAIN srv, err \in ShutdownErrors : Stop(a, err)

LifecycleSpec == LifecycleInit /\ [][LifecycleNext]_vars

----------------------------------------------------------------------------
(* CreateEchoResponse called on its own, as TestCreateEchoResponse does *)

EchoMethods == {"GET", "POST"}
EchoPaths == {"/", "/test"}
EchoBodies == {<<>>, <<"{\"foo\":\"bar\"}">>, <<"a", "b">>}

\* The request events CreateEchoResponse is called with.
EchoInputs ==
    [id : {"test-123", "test-456"}, adapter : {"test-adapter"},
     hop : {NoHeader, <<"1">>}, ok : BOOLEAN,
     method : EchoMethods, path : EchoPaths, body : EchoBodies]

EchoCallInit ==
    /\ uuid = FreshIDs({})
    /\ srv = AllStarted(EchoTopology)
    /\ arg \in {<<evt>> : evt \in EchoInputs}
    /\ InitState(EchoTopology, {}, {})

\* respEvt, err := CreateEchoResponse(evt)
EchoCall ==
    /\ ret = <<>>
    /\ ret' = <<CreateEchoResponse(arg[1])>>
    /\ UNCHANGED <<topology, uuid, calls, arg, phase, srv, listenerVars, busVars,
                   emitterVars, routerVars>>

EchoCallNext == EchoCall

EchoCallSpec == EchoCallInit /\ [][EchoCallNext]_vars

----------------------------------------------------------------------------
(* The request a relay sends to its next hop, from the request it received *)

HeaderKeys == {"X-Hop-Count", "X-Relay-Node", "Accept", "X-Original-Request-ID"}

\* r.Header as the callers send it: per key the list of its values (empty
\* when the header is absent); a value is a sequence of characters.
HeaderMenu ==
    [k \in HeaderKeys |->
       CASE k = "X-Hop-Count" -> {<<>>, <<<<"1">>>>, <<<<"x">>>>, <<<<"2">>>>, <<<<"1">>, <<"9">>>>}
         [] k = "X-Relay-Node" -> {<<>>, <<<<"Z">>>>}
         [] k = "Accept" -> {<<>>, <<<<"a">>>>, <<<<"a">>, <<"b">>>>}
         [] k = "X-Original-Request-ID" -> {<<>>, <<<<"7">>>>}]

RawHeaders ==
    {h \in [HeaderKeys -> UNION {HeaderMenu[k] : k \in HeaderKeys}] :
        \A k \in HeaderKeys : h[k] \in HeaderMenu[k]}

\* handleRequest: headers[key] = values[0] for every key that has a value
ParseHeaders(h) == [k \in {x \in DOMAIN h : h[x] # <<>>} |-> h[k][1]]

\* http.Header.Set: the key gets this one value
Set(h, k, v) == [x \in (DOMAIN h) \cup {k} |-> IF x = k THEN <<v>> ELSE h[x]]

\* The X-Visited-Nodes value the single-loop relay sends
VisitedNodes(headers, nodeName) ==
    IF "X-Visited-Nodes" \in DOMAIN headers /\ headers["X-Visited-Nodes"] # <<>>
      THEN headers["X-Visited-Nodes"] \o <<",", nodeName>>
      ELSE <<nodeName>>

\* forwardRequest: the headers of the payload are copied, then X-Hop-Count
\* and X-Relay-Node are set; the single-loop relay also sets
\* X-Original-Request-ID and X-Visited-Nodes.
ForwardHeaders(impl, headers, hc, nodeName, requestID) ==
    LET copied == [k \in DOMAIN headers |-> <<headers[k]>>]
        hop == Set(Set(copied, "X-Hop-Count", Itoa(hc)), "X-Relay-Node", <<nodeName>>)
    IN  IF impl = "pool" THEN hop
        ELSE Set(Set(hop, "X-Original-Request-ID", <<requestID>>),
                 "X-Visited-Nodes", VisitedNodes(headers, nodeName))

\* The payload handleRequest builds from the inbound request.
WirePayload(in) ==
    [id |-> in.id, method |-> in.method, path |-> in.path,
     headers |-> ParseHeaders(in.header), body |-> in.body]

\* hopCount as processEvent computes it from the payload
PayloadHopCount(payload) ==
    IF "X-Hop-Count" \in DOMAIN payload.headers
      THEN HopCount(payload.headers["X-Hop-Count"])
      ELSE HopCount(NoHeader)

\* http.NewRequest("POST", nextHop+payload.Path, prefix + body) and its headers
ForwardedRequest(n, i, payload, hc) ==
    [method |-> "POST",
     url |-> <<routesInOrder[n][i].nextHop, payload.path>>,
     header |-> ForwardHeaders(topology[n].impl, payload.headers, hc, n, payload.id),
     body |-> <<"[", n, "->hop", hc, "] ">> \o payload.body]

WireInputs ==
    [id : {"req-1"}, method : {"GET", "POST"}, path : {"/", "/api/test"},
     header : RawHeaders, body : {<<>>, <<"x">>}]

WireInit ==
    /\ arg \in {<<in>> : in \in WireInputs}
    /\ uuid = FreshIDs({})
    /\ \E topo \in {RelayPool, RelayLoop} :
          /\ srv = AllStarted(topo)
          /\ InitState(topo, {}, {})

\* The router forwards the request unless it is over the hop limit.
WireForward ==
    LET payload == WirePayload(arg[1])
        hc == PayloadHopCount(payload)
    IN  /\ ret = <<>>
        /\ ~ExceedsMaxHops("R", hc)
        /\ ret' = <<ForwardedRequest("R", 1, payload, hc)>>
        /\ UNCHANGED <<topology, uuid, calls, arg, phase, srv, listenerVars, busVars,
                       emitterVars, routerVars>>

WireNext == WireForward

WireSpec == WireInit /\ [][WireNext]_vars

----------------------------------------------------------------------------
(* The hop count of one event, for any X-Hop-Count value *)

HopChars == {"-", "1", "2", "7", "8", "9", "x"}

\* X-Hop-Count values of up to three characters, and no header
HopInputs ==
    {NoHeader} \cup UNION {[1 .. len -> HopChars] : len \in 1 .. 3}

HopInit ==
    /\ arg \in {<<h>> : h \in HopInputs}
    /\ uuid = FreshIDs({})
    /\ srv = AllStarted(RelayPool)
    /\ InitState(RelayPool, {}, {})

\* processEvent computes hopCount; forwardRequest sends it as X-Hop-Count.
HopStep ==
    LET hc == HopCount(arg[1]) IN
    /\ ret = <<>>
    /\ ret' = <<[hop |-> hc,
                header |-> Forward("R", 1, [id |-> ForeignID], hc).header]>>
    /\ UNCHANGED <<topology, uuid, calls, arg, phase, srv, listenerVars, busVars,
                   emitterVars, routerVars>>

HopNext == HopStep

HopSpec == HopInit /\ [][HopNext]_vars

----------------------------------------------------------------------------
(* relay-node serving several callers at once *)

\* X-Hop-Count as the callers send it: absent (forwarded) or at the limit
\* (dropped).
BusyHopHeaders == {NoHeader, Itoa(RelayMaxHops)}

BusyInit == InitWith(RelayPool, Requests, RelayEmitters)

BusyNext ==
    \/ \E r \in Requests, h \in BusyHopHeaders :
          ClientSend(r, "http-server-:8080", h)
    \/ \E r \in Requests : Listener(r)
    \/ \E w \in DOMAIN wpc : Worker(w)
    \/ \E f \in DOMAIN forwards : ForwardCall(f)
    \/ \E evt \in respSeen : Redeliver("R", evt)
    \/ \E e \in RelayEmitters : Emitter(e)

BusySpec == BusyInit /\ [][BusyNext]_vars

----------------------------------------------------------------------------
(* relay-node: the shutdown sequence of main after SIGINT or SIGTERM *)

WorkersAt(n) == {w \in DOMAIN wpc : WorkerNode(w) = n}

\* sub.Close(): the subscription admits no more events.  Events still
\* buffered are either left for the workers to drain or discarded.
ShutdownClose(n) ==
    /\ topology[n].impl = "pool"
    /\ phase[n] = "running"
    /\ phase' = [phase EXCEPT ![n] = "closed"]
    /\ \E q \in {reqQ[n], <<>>} : reqQ' = [reqQ EXCEPT ![n] = q]
    /\ UNCHANGED <<respQ, delivered, respSeen, srv>>
    /\ UNCHANGED <<topology, uuid, calls, arg, ret, listenerVars, emitterVars, routerVars>>

\* The range over sub.Events() ends once the subscription is closed and
\* empty: the worker returns and workerWG.Done() runs.
WorkerExit(w) ==
    LET n == WorkerNode(w) IN
    /\ w \in DOMAIN wpc
    /\ wpc[w] = "idle"
    /\ phase[n] # "running"
    /\ reqQ[n] = <<>>
    /\ wpc' = [wpc EXCEPT ![w] = "exited"]
    /\ UNCHANGED <<routesInOrder, stats, totalStats, wevt, wroute, whop, forwards,
                   evlog, replies>>
    /\ UNCHANGED <<topology, uuid, calls, arg, ret, listenerVars, busVars, emitterVars, mainVars>>

\* (mutant) main goes on without waiting for the workers
ShutdownWait_NoWait(n) ==
    /\ phase[n] = "closed"
    /\ phase' = [phase EXCEPT ![n] = "drained"]
    /\ UNCHANGED <<topology, uuid, calls, arg, ret, srv, listenerVars, busVars, emitterVars, routerVars>>

\* workerWG.Wait() returns when every worker has returned.
ShutdownWait(n) ==
    /\ phase[n] = "closed"
    /\ \A w \in WorkersAt(n) : wpc[w] = "exited"
    /\ phase' = [phase EXCEPT ![n] = "drained"]
    /\ UNCHANGED <<topology, uuid, calls, arg, ret, srv, listenerVars, busVars, emitterVars, routerVars>>

\* adapterMgr.Shutdown(): every adapter of the node is stopped.
ShutdownAdapters(n) ==
    /\ phase[n] = "drained"
    /\ phase' = [phase EXCEPT ![n] = "adapters-down"]
    /\ srv' = [a \in DOMAIN srv |-> IF NodeOf(a) = n THEN Stopped(srv[a]) ELSE srv[a]]
    /\ UNCHANGED <<topology, uuid, calls, arg, ret, listenerVars, busVars, emitterVars, routerVars>>

\* emitterMgr.Shutdown(): no further response event is emitted.
ShutdownEmitters(n) ==
    /\ phase[n] = "adapters-down"
    /\ phase' = [phase EXCEPT ![n] = "stopped"]
    /\ UNCHANGED <<topology, uuid, calls, arg, ret, srv, listenerVars, busVars, emitterVars, routerVars>>

Shutdown(n) ==
    \/ ShutdownClose(n)
    \/ ShutdownWait(n)
    \/ ShutdownAdapters(n)
    \/ ShutdownEmitters(n)

ShutdownInit == InitWith(RelayPool, RelayRequests, RelayEmitters)

ShutdownNext ==
    \/ RelayNext
    \/ \E w \in DOMAIN wpc : WorkerExit(w)
    \/ Shutdown("R")

ShutdownSpec == ShutdownInit /\ [][ShutdownNext]_vars

----------------------------------------------------------------------------
(* The ring with the default MAX_HOPS, followed along one request: the     *)
(* listeners up to the publication of the request event, the routers and   *)
(* the sending of the forwards.  Emitters, timers and the return of the    *)
(* forwards, none of which touches a router, are left out.                 *)

GeoRequests == 1 .. (DefaultMaxHops + 1)

GeoTopology ==
    [n \in RingNodes |-> [RingTopology[n] EXCEPT !.maxHops = DefaultMaxHops]]

GeoInit == InitWith(GeoTopology, GeoRequests, RingEmitters)

\* A client calls node A without X-Hop-Count.
GeoClientSend(r) ==
    /\ Cardinality(FreeSlots) >= DefaultMaxHops + 1
    /\ ClientSend(r, RingAdapter("A"), NoHeader)

\* handleRequest up to the select
Intake(r) ==
    \/ HandleReadError(r)
    \/ HandleEventError(r)
    \/ HandleRegister(r)
    \/ PublishOK(r)
    \/ PublishFail(r)

GeoNext ==
    \/ \E r \in GeoRequests : GeoClientSend(r)
    \/ \E r \in GeoRequests : Intake(r)
    \/ \E w \in RingWorkers : Worker(w)
    \/ \E f \in GeoRequests : f \in DOMAIN forwards /\ ForwardSend(f)

GeoSpec == GeoInit /\ [][GeoNext]_vars

----------------------------------------------------------------------------
(* Observations used by the properties *)

CompleteWrites(r) == {i \in DOMAIN sink[r] : sink[r][i].ok}
EmitterWrites(s) == {i \in DOMAIN s : s[i].src = "emitter"}
InFlight(id) == {e \in DOMAIN epc : epc[e] # "idle" /\ eevt[e].id = id}
Found(id) == results[id]["ok"] + results[id]["already"] + results[id]["writeerr"]
WasRegistered(r) == hpc[r] \notin {"idle", "accepted"} /\ outcome[r] \notin {"badbody", "evtfail"}
RegisteredNow(r) == Registered(NodeOf(req[r].adapter), RequestID(r))

----------------------------------------------------------------------------
\* C1: for every request, under any interleaving of the emitter's
\* WriteResponse calls and the listener's timeout fallback, the connection is
\* written exactly once: no second response reaches it, and a flow that has
\* returned has written one.
C1_SinkWrittenExactlyOnce ==
    \A r \in Requests :
        /\ Cardinality(CompleteWrites(r)) <= 1
        /\ hpc[r] = "returned" => sink[r] # <<>>

----------------------------------------------------------------------------
----------------------------------------------------------------------------
\* C3: Emit of a response event whose request ID has no registered handle, or
\* whose handle is already written, returns an error and writes to no
\* connection; once a handle is written no Emit call writes to its connection
\* again.
C3_NoWriteWithoutPendingHandle ==
    /\ [][\A e \in EchoEmitters :
            LET n == EmitterNode(e) IN
            /\ (/\ respQ[n] # <<>>
                /\ respQ'[n] = Tail(respQ[n])
                /\ ~Registered(n, Head(respQ[n]).id)) =>
                  /\ results'[Head(respQ[n]).id]["notfound"] =
                        results[Head(respQ[n]).id]["notfound"] + 1
                  /\ sink' = sink /\ written' = written /\ done' = done
                  /\ epc' = epc
            /\ (epc[e] = "write" /\ epc'[e] # "write" /\ written[erw[e]]) =>
                  /\ results'[eevt[e].id]["already"] = results[eevt[e].id]["already"] + 1
                  /\ sink' = sink /\ written' = written /\ done' = done]_vars
    /\ [][\A r \in Requests :
            results[RequestID(r)]["ok"] >= 1 =>
                EmitterWrites(sink'[r]) = EmitterWrites(sink[r])]_vars

\* A response event was delivered again after its handle was resolved, one for
\* an ID never registered was delivered too, and the connection holds one write.
C3_Witness ==
    \E r \in Requests :
        /\ results[RequestID(r)]["ok"] = 1
        /\ results[RequestID(r)]["already"] + results[RequestID(r)]["notfound"] >= 1
        /\ results[ForeignID]["notfound"] >= 1
        /\ Len(sink[r]) = 1

----------------------------------------------------------------------------
\* C4: a handle stored by handleRequest is in the registry until the flow takes
\* the completion path or the timeout path; from then on its ID is absent, and
\* over the whole flow exactly one Delete removed the entry.
C4_RemovedExactlyOnce ==
    \A r \in Requests :
        /\ removed[r] <= 1
        /\ hpc[r] \in {"registered", "waiting"} => RegisteredNow(r) /\ removed[r] = 0
        /\ (hpc[r] \in {"expired", "fallback", "returned"} /\ WasRegistered(r)) =>
              ~RegisteredNow(r) /\ removed[r] = 1

\* One flow ended on the completion signal and another on the timeout.
C4_Witness ==
    \E r, q \in Requests :
        /\ outcome[r] = "done" /\ removed[r] = 1
        /\ outcome[q] = "timeout" /\ removed[q] = 1

----------------------------------------------------------------------------
\* C5: when Publish of the request event fails, handleRequest answers 500 at
\* once, removes the handle, never enters the wait and calls Publish no second
\* time; the event reaches no subscriber.
C5_PublishFailureFailsCaller ==
    /\ [](\A r \in Requests :
            /\ publishCalls[r] <= 1
            /\ outcome[r] = "pubfail" =>
                  /\ hpc[r] = "returned"
                  /\ sink[r] = <<HttpError("Failed to process request",
                                           StatusInternalServerError)>>
                  /\ ~RegisteredNow(r)
                  /\ removed[r] = 1
                  /\ results[RequestID(r)] = [k \in ResultKinds |-> 0])
    /\ [][\A r \in Requests :
            (publishCalls'[r] > publishCalls[r] /\ reqQ' = reqQ) =>
                /\ hpc[r] = "registered"
                /\ hpc'[r] = "returned"
                /\ outcome'[r] = "pubfail"]_vars

\* A publish failed while another request was being served.
C5_Witness ==
    \E r, q \in Requests :
        /\ outcome[r] = "pubfail"
        /\ hpc[q] = "waiting"

----------------------------------------------------------------------------
----------------------------------------------------------------------------
(* Observations on the router *)

Decisions(id) == {evlog[id][k] : k \in DOMAIN evlog[id]}
ForwardsOf(id) == {f \in DOMAIN forwards : forwards[f].id = id}
Processing(id) == \E w \in DOMAIN wpc : wpc[w] # "idle" /\ wevt[w].id = id
AcksOf(id) == {k \in DOMAIN replies[id] : replies[id][k].body.kind = "Relayed by"}
DropsOn(n, i) ==
    {id \in DOMAIN evlog :
        \E d \in Decisions(id) : d.node = n /\ d.route = i /\ d.verdict = "drop"}

----------------------------------------------------------------------------
(* C7: for every request event the router has taken its hop decision on,   *)
(* a computed hopCount above maxHops means no forward call was ever issued *)
(* for the event, and a hopCount of at most maxHops means exactly one      *)
(* forward call was issued for it.                                         *)
C7_ForwardIffWithinMaxHops ==
    \A id \in DOMAIN evlog : \A d \in Decisions(id) :
        d.verdict # "undecodable" =>
           /\ d.hop > topology[d.node].maxHops => ForwardsOf(id) = {}
           /\ d.hop <= topology[d.node].maxHops => Cardinality(ForwardsOf(id)) = 1

\* One event was dropped over the limit and another forwarded within it.
C7_Witness ==
    \E id1, id2 \in DOMAIN evlog :
       /\ \E d \in Decisions(id1) :
             d.verdict = "drop" /\ d.hop > topology[d.node].maxHops
       /\ ForwardsOf(id1) = {}
       /\ \E d \in Decisions(id2) :
             d.verdict = "forward" /\ d.hop <= topology[d.node].maxHops
       /\ Cardinality(ForwardsOf(id2)) = 1

(* C8: an event whose hopCount exceeds maxHops adds exactly one to its     *)
(* route's dropped counter, gets exactly one response published, which     *)
(* carries the request's ID and reports that max hops was reached at this  *)
(* node, and is not forwarded.                                             *)
C8_DropReportsMaxHops ==
    /\ \A id \in DOMAIN evlog : \A d \in Decisions(id) :
          d.verdict = "drop" =>
             /\ replies[id] = <<ResponseEvent(id, StatusOK, MaxHopsBody(d.node))>>
             /\ ForwardsOf(id) = {}
    /\ \A n \in DOMAIN stats : \A i \in DOMAIN stats[n] :
          stats[n][i].dropped = Cardinality(DropsOn(n, i))

----------------------------------------------------------------------------
(* Forwarding chains *)

\* The client request a request descends from: itself when it came from a
\* client, otherwise the origin of the request whose event was forwarded.
RECURSIVE Origin(_)
Origin(r) == IF req[r].from = 0 THEN r ELSE Origin(forwards[req[r].from].id)

\* Client requests accepted without an X-Hop-Count header
Entries == {r \in DOMAIN hpc : Used(r) /\ req[r].from = 0 /\ req[r].hop = NoHeader}

ChainRequests(c) == {r \in DOMAIN hpc : Used(r) /\ Origin(r) = c}
ChainForwards(c) == {f \in DOMAIN forwards : forwards[f].id \in ChainRequests(c)}
ChainDecisions(c) == UNION {Decisions(RequestID(r)) : r \in ChainRequests(c)}

(* C11: for a request that entered the ring without X-Hop-Count, at most   *)
(* maxHops forward calls are ever issued along its chain, the k-th of them *)
(* at hop k; no hop decision is taken beyond hop maxHops + 1, and the      *)
(* decision at hop maxHops + 1 is a drop, which ends the chain.            *)
C11_ChainBounded ==
    \A c \in Entries :
       LET max == topology[NodeOf(req[c].adapter)].maxHops IN
       /\ Cardinality(ChainForwards(c)) <= max
       /\ \A f \in ChainForwards(c) : forwards[f].hop \in 1 .. max
       /\ \A f, g \in ChainForwards(c) : forwards[f].hop = forwards[g].hop => f = g
       /\ \A d \in ChainDecisions(c) :
             /\ d.hop <= max + 1
             /\ d.hop = max + 1 => d.verdict = "drop"

\* A chain that used all its maxHops forwards and ended with the drop.
C11_Witness ==
    \E c \in Entries :
       LET max == topology[NodeOf(req[c].adapter)].maxHops IN
       /\ Cardinality(ChainForwards(c)) = max
       /\ \E d \in ChainDecisions(c) : d.hop = max + 1 /\ d.verdict = "drop"

(* C12: in the ring A -> B -> C -> A with maxHops = 10 and requests        *)
(* entering at A without X-Hop-Count, every drop happens at node B, at hop *)
(* 11: the dropped counters of A and C stay zero and B's counts the chains *)
(* that reached hop 11.                                                    *)
C12_DropsOnlyAtB ==
    /\ \A n \in {"A", "C"} : \A i \in DOMAIN stats[n] : stats[n][i].dropped = 0
    /\ totalStats["A"].dropped = 0 /\ totalStats["C"].dropped = 0
    /\ \A id \in DOMAIN evlog : \A d \in Decisions(id) :
          d.verdict = "drop" => d.node = "B" /\ d.hop = DefaultMaxHops + 1
    /\ stats["B"][1].dropped = Cardinality(DropsOn("B", 1))

\* The chain of a request went three times round the ring and was dropped
\* at B.
C12_Witness ==
    /\ stats["B"][1].dropped = 1
    /\ stats["A"][1].dropped = 0 /\ stats["C"][1].dropped = 0
    /\ Len(forwards) = DefaultMaxHops
    /\ totalStats["A"].received = 4 /\ totalStats["B"].received = 4
    /\ totalStats["C"].received = 3

----------------------------------------------------------------------------
(* Workers sharing one subscription *)

Holders(id) == {w \in DOMAIN wpc : wpc[w] # "idle" /\ wevt[w].id = id}

\* Events counted as received: those past ProcessReceive.
Counted(n) ==
    {id \in DOMAIN evlog :
        \/ \E d \in Decisions(id) : d.node = n
        \/ \E w \in Holders(id) : WorkerNode(w) = n /\ wpc[w] = "decoded"}

(* C13: with the workers of a node receiving from the same subscription,   *)
(* each event is held by at most one worker and processed once: it has at  *)
(* most one routing decision, one forward and one published response, and  *)
(* received counts it once.                                                *)
C13_OneWorkerPerEvent ==
    /\ \A id \in DOMAIN evlog :
          /\ Cardinality(Holders(id)) <= 1
          /\ Len(evlog[id]) <= 1
          /\ Cardinality(ForwardsOf(id)) <= 1
          /\ Len(replies[id]) <= 1
          /\ evlog[id] # <<>> /\ evlog[id][1].verdict # "forward" => Holders(id) = {}
    /\ \A n \in DOMAIN totalStats : totalStats[n].received = Cardinality(Counted(n))

\* Two workers of the pool are processing two different events at once.
C13_Witness ==
    \E w1, w2 \in DOMAIN wpc :
       /\ w1 # w2
       /\ WorkerNode(w1) = WorkerNode(w2)
       /\ wpc[w1] = "spawned" /\ wpc[w2] = "decoded"
       /\ wevt[w1].id # wevt[w2].id
       /\ totalStats[WorkerNode(w1)].received = 2

----------------------------------------------------------------------------
(* C14: whatever the emitter wrote to a caller is the status and body of a *)
(* published response event whose ID is the one minted for that caller's   *)
(* request, also with several requests in flight; on the echo server it is *)
(* status 200 with a body holding the caller's own method, path and body.  *)
C14_ResponseMatchesRequest ==
    \A r \in DOMAIN sink : \A k \in DOMAIN sink[r] :
       sink[r][k].src = "emitter" =>
          /\ \E evt \in respSeen :
                /\ evt.id = RequestID(r)
                /\ evt.status = sink[r][k].status
                /\ evt.body = sink[r][k].body
          /\ sink[r][k].status = StatusOK
          /\ sink[r][k].body.kind = "Echo"
          /\ sink[r][k].body.of = RequestID(r)
          /\ sink[r][k].body.method = "POST"
          /\ sink[r][k].body.path = "/api/test"
          /\ sink[r][k].body.text = RequestBody(r)

\* Both requests are pending at once and each has just been written its
\* own echo.
C14_Witness ==
    \A r \in Requests :
       /\ hpc[r] = "waiting"
       /\ RegisteredNow(r)
       /\ sink[r] = <<Written("emitter", StatusOK, EchoBody(RequestEvent(r)), TRUE)>>

----------------------------------------------------------------------------
(* Routes *)

\* adapter_id in the metadata of the request event with the given ID
EventAdapter(id) ==
    IF id = ForeignID THEN "unknown"
    ELSE req[CHOOSE r \in DOMAIN req : RequestID(r) = id].adapter

Known(n, adapterID) ==
    \E i \in DOMAIN routesInOrder[n] : routesInOrder[n][i].id = adapterID

\* Events counted on route i of node n: decided on it, or decoded and about
\* to be.
CountedOn(n, i) ==
    {id \in DOMAIN evlog :
        \/ \E d \in Decisions(id) : d.node = n /\ d.route = i
        \/ \E w \in Holders(id) :
              WorkerNode(w) = n /\ wpc[w] = "decoded" /\ wroute[w] = i}

FailedOn(n, i) ==
    {id \in DOMAIN evlog :
        \E d \in Decisions(id) : d.node = n /\ d.route = i /\ d.verdict = "undecodable"}

ForwardsOn(n, i, states) ==
    {f \in DOMAIN forwards :
        forwards[f].node = n /\ forwards[f].route = i /\ forwards[f].state \in states}

(* C15: the router handles an event on the route whose ID is the event's   *)
(* adapter_id and, when no route has that ID, on the first configured      *)
(* route: that route's counters count it and its forward goes to that      *)
(* route's next hop.  The fallback itself counts no error: errors counts   *)
(* undecodable events and failed forwards only.                            *)
C15_RouteByAdapterOrFirst ==
    /\ \A id \in DOMAIN evlog : \A d \in Decisions(id) :
          /\ Known(d.node, EventAdapter(id)) =>
                routesInOrder[d.node][d.route].id = EventAdapter(id)
          /\ ~Known(d.node, EventAdapter(id)) => d.route = 1
          /\ \A f \in ForwardsOf(id) :
                /\ forwards[f].route = d.route
                /\ NextHop(f) = routesInOrder[d.node][d.route].nextHop
    /\ \A n \in DOMAIN stats : \A i \in DOMAIN stats[n] :
          /\ stats[n][i].received = Cardinality(CountedOn(n, i))
          /\ stats[n][i].dropped = Cardinality(DropsOn(n, i))
          /\ stats[n][i].forwarded = Cardinality(ForwardsOn(n, i, {"ok"}))
          /\ stats[n][i].errors =
                Cardinality(FailedOn(n, i)) + Cardinality(ForwardsOn(n, i, {"err"}))

\* An event with an unknown adapter_id went out on the first of two routes
\* and no error was counted.
C15_Witness ==
    /\ Len(routesInOrder["R"]) = 2
    /\ \E d \in Decisions(ForeignID) : d.route = 1 /\ d.verdict = "forward"
    /\ \E f \in ForwardsOf(ForeignID) : forwards[f].state = "ok" /\ NextHop(f) = ExternalHop
    /\ stats["R"][1] = [received |-> 1, forwarded |-> 1, dropped |-> 0, errors |-> 0]
    /\ stats["R"][2].received = 1

----------------------------------------------------------------------------
(* Forward results *)

Returned(f) == forwards[f].state \in {"ok", "err"}

\* A forward that failed: relayClient.Do gave no response (status 0), or
\* the next hop answered with a status other than 200.
FailedForward(f) == Returned(f) /\ forwards[f].status # StatusOK

(* C16: a forward that fails, the next hop being unreachable or answering  *)
(* with a non-success status, adds exactly one to its route's errors and   *)
(* nothing to forwarded; it is not retried, and the acknowledgement        *)
(* published for its event stays as it was.                                *)
C16_FailedForwardCountsError ==
    /\ \A n \in DOMAIN stats : \A i \in DOMAIN stats[n] :
          /\ stats[n][i].errors =
                Cardinality(FailedOn(n, i))
                   + Cardinality({f \in ForwardsOn(n, i, {"ok", "err"}) : FailedForward(f)})
          /\ stats[n][i].forwarded =
                Cardinality({f \in ForwardsOn(n, i, {"ok", "err"}) : ~FailedForward(f)})
    /\ \A id \in DOMAIN evlog :
          /\ Cardinality(ForwardsOf(id)) <= 1
          /\ \A f \in ForwardsOf(id) :
                FailedForward(f) /\ ~Processing(id) =>
                   replies[id] = <<AckResponse(forwards[f].node,
                                               [id |-> id], forwards[f].hop)>>

----------------------------------------------------------------------------
(* Shutdown *)

SubClosed(n) == phase[n] # "running"
TeardownBegun(n) == phase[n] \in {"drained", "adapters-down", "stopped"}
PhaseOrder ==
    {<<"running", "closed">>, <<"closed", "drained">>,
     <<"drained", "adapters-down">>, <<"adapters-down", "stopped">>}

(* C17: the shutdown runs in order: once the subscription is closed it     *)
(* admits no further event; adapters are stopped only after every worker   *)
(* of the node has returned; and from the moment teardown may begin no     *)
(* worker is in per-event processing, none starts again, and no event is   *)
(* received, decided or answered by the router any more.                   *)
C17_ShutdownOrder ==
    /\ [](\A n \in DOMAIN phase :
            TeardownBegun(n) => \A w \in WorkersAt(n) : wpc[w] = "exited")
    /\ [](\A a \in DOMAIN srv : ~srv[a].running => TeardownBegun(NodeOf(a)))
    /\ [][\A n \in DOMAIN phase :
            /\ phase'[n] # phase[n] => <<phase[n], phase'[n]>> \in PhaseOrder
            /\ SubClosed(n) => Len(reqQ'[n]) <= Len(reqQ[n])
            /\ TeardownBegun(n) =>
                  /\ \A w \in WorkersAt(n) : wpc'[w] = "exited"
                  /\ totalStats'[n].received = totalStats[n].received
                  /\ \A id \in DOMAIN evlog :
                        \A k \in DOMAIN evlog'[id] \ DOMAIN evlog[id] :
                           evlog'[id][k].node # n]_vars

\* The relay is fully shut down after its workers processed every event.
C17_Witness ==
    /\ phase["R"] = "stopped"
    /\ \A w \in WorkersAt("R") : wpc[w] = "exited"
    /\ \A a \in DOMAIN srv : ~srv[a].running
    /\ totalStats["R"].received = NumRelayRequests + 1

----------------------------------------------------------------------------
(* Registration *)

\* The handle of request r is live: stored by its flow and not yet deleted.
Live(r) == hpc[r] \in {"registered", "waiting"}
SameID(r1, r2) == r1 # r2 /\ RequestID(r1) = RequestID(r2)

(* C18: registering under a correlation ID that is already in the registry *)
(* leaves the entry of that ID as it was, and no two live handles ever     *)
(* carry the same correlation ID.                                          *)
C18_RegisterKeepsExistingHandle ==
    /\ [](\A r1, r2 \in Requests : SameID(r1, r2) => ~(Live(r1) /\ Live(r2)))
    /\ [][\A n \in DOMAIN globalResponseWriters :
            \A id \in DOMAIN globalResponseWriters[n] :
               id \in DOMAIN globalResponseWriters'[n] =>
                  globalResponseWriters'[n][id] = globalResponseWriters[n][id]]_vars

----------------------------------------------------------------------------
(* Failures of one request *)

\* Request q is in flight: accepted and not yet answered.
Pending(q) == hpc[q] \notin {"idle", "returned"}

\* What the program holds for request q: its registry entry, the flags of
\* its handle and what was written to its connection.
HandleState(q) ==
    <<GetResponseWriter(NodeOf(req[q].adapter), RequestID(q)),
      written[q], done[q], sink[q]>>

\* This step is a failure of request r: its publish fails, its wait times
\* out (and the timeout path runs), an Emit call for its ID returns "no
\* response writer found" or "response already written", or its forward
\* fails.
FailureStep(r) ==
    \/ outcome[r] # "pubfail" /\ outcome'[r] = "pubfail"
    \/ hpc[r] = "waiting" /\ hpc'[r] = "expired"
    \/ hpc[r] \in {"expired", "fallback"} /\ hpc'[r] # hpc[r]
    \/ results'[RequestID(r)]["notfound"] > results[RequestID(r)]["notfound"]
    \/ results'[RequestID(r)]["already"] > results[RequestID(r)]["already"]
    \/ \E f \in DOMAIN forwards :
          /\ forwards[f].id = RequestID(r)
          /\ forwards[f].state # "err"
          /\ forwards'[f].state = "err"

(* C19: a step in which one request fails (publish failure, timeout,       *)
(* duplicate or late completion, forward failure) leaves the registry      *)
(* entry, the written and done flags and the written responses of every    *)
(* other request in flight as they were.                                   *)
C19_FailuresAreScoped ==
    [][\A r \in Requests :
          FailureStep(r) =>
             \A q \in Requests \ {r} :
                Pending(q) => HandleState(q)' = HandleState(q)]_vars

\* One request timed out, its forward failed and a late response for it
\* found no handle, while another request is registered and waiting.
C19_Witness ==
    \E r, q \in Requests :
        /\ r # q
        /\ outcome[r] = "timeout"
        /\ \E f \in DOMAIN forwards :
              forwards[f].id = RequestID(r) /\ forwards[f].state = "err"
        /\ results[RequestID(r)]["notfound"] >= 1
        /\ hpc[q] = "waiting" /\ RegisteredNow(q) /\ sink[q] = <<>>

----------------------------------------------------------------------------
(* Lifecycle calls *)

\* This step is a call of op on adapter a.
Called(a, op) ==
    /\ Len(calls'[a]) = Len(calls[a]) + 1
    /\ calls'[a][Len(calls'[a])].op = op

(* C20: a Start call on an adapter that is running returns the error       *)
(* "adapter already running" and changes nothing: the adapter stays        *)
(* running with the server, bus and clock it had, and no other state of    *)
(* the program changes.                                                    *)
C20_StartTwiceFails ==
    [][\A a \in DOMAIN srv :
          (Called(a, "Start") /\ srv[a].running) =>
             /\ calls'[a][Len(calls'[a])].err = AlreadyRunning
             /\ srv' = srv
             /\ srv'[a].running
             /\ UNCHANGED <<topology, uuid, arg, ret, phase, listenerVars, busVars,
                            emitterVars, routerVars>>]_vars

\* A running adapter was started again with another bus and clock: the call
\* failed and the adapter still has its first server, bus and clock.
C20_Witness ==
    \E a \in DOMAIN srv :
        /\ Len(calls[a]) = 2
        /\ calls[a][1] = StartCall("external", "system", NoError)
        /\ calls[a][2] = StartCall("internal", "mock", AlreadyRunning)
        /\ srv[a] = Started(NewServerAdapter, "external", "system")

(* C21: a Stop call on an adapter that is not running, whether it was      *)
(* never started or has been stopped already, returns nil and changes      *)
(* nothing, so a second Stop leaves the adapter as the first one left it.  *)
C21_StopWhenNotRunningIsNoOp ==
    [][\A a \in DOMAIN srv :
          (Called(a, "Stop") /\ ~srv[a].running) =>
             /\ calls'[a][Len(calls'[a])].err = NoError
             /\ srv' = srv
             /\ UNCHANGED <<topology, uuid, arg, ret, phase, listenerVars, busVars,
                            emitterVars, routerVars>>]_vars

\* One adapter was stopped before any Start; the other was started, stopped
\* and stopped again, and is as its first Stop left it.
C21_Witness ==
    \E a, b \in DOMAIN srv :
        /\ calls[a] = <<StopCall(NoError)>>
        /\ srv[a] = NewServerAdapter
        /\ Len(calls[b]) = 3
        /\ calls[b][1] = StartCall("external", "system", NoError)
        /\ calls[b][2].op = "Stop"
        /\ calls[b][3] = StopCall(NoError)
        /\ srv[b] = Stopped(Started(NewServerAdapter, "external", "system"))

----------------------------------------------------------------------------
----------------------------------------------------------------------------
(* The forwarded request *)

\* The hop count the node is to compute for an inbound request: its
\* X-Hop-Count plus one, 1 without a usable header.
ExpectedHop(in) ==
    LET vs == in.header["X-Hop-Count"] IN
    IF vs # <<>> /\ Atoi(vs[1]).ok THEN Atoi(vs[1]).val + 1 ELSE 1

(* C23: a forwarded request has the path of the inbound request and every  *)
(* header of the inbound request with all its values, except that          *)
(* X-Hop-Count is the hop count computed for the event and X-Relay-Node is *)
(* the name of the forwarding node.                                        *)
C23_ForwardCarriesOriginal ==
    \A j \in DOMAIN ret :
       LET in == arg[1]
           fwd == ret[j]
       IN  /\ fwd.url[2] = in.path
           /\ \A k \in HeaderKeys \ {"X-Hop-Count", "X-Relay-Node"} :
                 in.header[k] # <<>> =>
                    k \in DOMAIN fwd.header /\ fwd.header[k] = in.header[k]
           /\ fwd.header["X-Hop-Count"] = <<Itoa(ExpectedHop(in))>>
           /\ fwd.header["X-Relay-Node"] = <<<<"R">>>>

----------------------------------------------------------------------------
(* Ingress errors *)

Malformed(r) == outcome[r] \in {"badbody", "evtfail"}

\* The local error response of an ingress failure
IngressError(r) ==
    IF outcome[r] = "badbody"
      THEN HttpError("Failed to read request body", StatusBadRequest)
      ELSE HttpError("Failed to create event", StatusInternalServerError)

----------------------------------------------------------------------------
(* Hop counts *)

\* The header value is a decimal integer, with or without a sign.
IsNumber(h) ==
    LET ds == IF h # <<>> /\ h[1] \in {"+", "-"} THEN Tail(h) ELSE h IN
    ds # <<>> /\ \A i \in DOMAIN ds : IsDigit(ds[i])

\* The integer the header value denotes
NumberOf(h) ==
    IF h[1] = "-" THEN 0 - NatOf(Tail(h))
    ELSE IF h[1] = "+" THEN NatOf(Tail(h)) ELSE NatOf(h)

(* C25: the hop count a node computes is the inbound X-Hop-Count plus one,  *)
(* and 1 when there is no such number; the X-Hop-Count it forwards is that  *)
(* computed value, so the count goes up by one per forward and never down.  *)
C25_HopCountIncrements ==
    \A j \in DOMAIN ret :
       LET h == arg[1]
           out == ret[j]
       IN  /\ IsNumber(h) => out.hop = NumberOf(h) + 1 /\ out.hop > NumberOf(h)
           /\ ~IsNumber(h) => out.hop = 1
           /\ out.header = Itoa(out.hop)

----------------------------------------------------------------------------
(* Completion of a handle *)

\* This step is emitter e leaving WriteResponse with success: it sets
\* rw.written and closes rw.done.
Completes(e) == epc[e] = "mark" /\ epc'[e] # "mark"

(* C26: whatever the interleaving of the WriteResponse calls on a handle,  *)
(* its written flag and its done signal are set by one call only: a call   *)
(* that sets them finds both clear, and once set neither is ever cleared.  *)
C26_HandleCompletesOnce ==
    /\ [][\A r \in Requests :
            /\ written[r] => written'[r]
            /\ done[r] => done'[r]]_vars
    /\ [][\A e \in EchoEmitters :
            Completes(e) =>
               /\ ~written[erw[e]] /\ ~done[erw[e]]
               /\ written'[erw[e]] /\ done'[erw[e]]
               /\ \A q \in Requests \ {erw[e]} :
                     written'[q] = written[q] /\ done'[q] = done[q]]_vars
    /\ [](\A r \in Requests : results[RequestID(r)]["ok"] <= 1)

\* Two WriteResponse calls on one handle at once: one has written and holds
\* rw.mu, the other waits for the lock.
C26_Witness ==
    \E e1, e2 \in EchoEmitters :
        /\ e1 # e2
        /\ erw[e1] # 0 /\ erw[e1] = erw[e2]
        /\ epc[e1] = "mark" /\ mu[erw[e1]] = e1
        /\ epc[e2] = "write"

----------------------------------------------------------------------------
(* Forwards and the listener's wait *)

\* This step ends the wait of request r or belongs to its timeout path.
WaitStep(r) == hpc[r] \in {"waiting", "expired", "fallback"} /\ hpc'[r] # hpc[r]

(* C27: the end of a listener's wait, by completion or by timeout, changes *)
(* no forward and no counter; a forward that has not returned can always   *)
(* take its next step, whatever the state of the request it was made for;  *)
(* once returned its outcome stays, and it is counted once, as forwarded   *)
(* or as an error.                                                         *)
C27_ForwardOutlivesWait ==
    /\ [][\A r \in RelayRequests :
            WaitStep(r) =>
               forwards' = forwards /\ stats' = stats /\ totalStats' = totalStats]_vars
    /\ [](\A f \in DOMAIN forwards : ~Returned(f) => ENABLED ForwardCall(f))
    /\ [][\A f \in DOMAIN forwards : Returned(f) => forwards'[f] = forwards[f]]_vars
    /\ [](\A n \in DOMAIN stats : \A i \in DOMAIN stats[n] :
            /\ stats[n][i].forwarded = Cardinality(ForwardsOn(n, i, {"ok"}))
            /\ stats[n][i].errors =
                  Cardinality(FailedOn(n, i)) + Cardinality(ForwardsOn(n, i, {"err"})))

\* The caller has its acknowledgement and its flow has returned while the
\* forward made for its request is still on its way.
C27_Witness ==
    \E r \in RelayRequests : \E f \in ForwardsOf(RequestID(r)) :
        /\ forwards[f].state = "sent"
        /\ hpc[r] = "returned" /\ outcome[r] = "done"
        /\ \E k \in DOMAIN sink[r] : sink[r][k].body.kind = "Relayed by"

----------------------------------------------------------------------------
(* Forwards at shutdown *)

\* main has passed emitterMgr.Shutdown() and reports its final counters.
FinalReport(n) == phase[n] = "stopped"

\* The forwards started by node n.
ForwardsFrom(n) == {f \in DOMAIN forwards : forwards[f].node = n}

(* C28: when the shutdown sequence of a node has completed and the final   *)
(* counters are reported, every forward the node started has returned and  *)
(* its outcome is in the counters.                                         *)
C28_ForwardsJoinedAtShutdown ==
    \A n \in DOMAIN phase :
        FinalReport(n) =>
           /\ \A f \in ForwardsFrom(n) : Returned(f)
           /\ \A i \in DOMAIN stats[n] :
                 stats[n][i].forwarded + stats[n][i].errors =
                     Cardinality(FailedOn(n, i))
                       + Cardinality({f \in ForwardsFrom(n) : forwards[f].route = i})

----------------------------------------------------------------------------
(* The route table *)

\* The counters of node n have moved: events were received and a forward
\* has returned on some route.
CountersMoved(n) ==
    /\ totalStats[n].received > 0
    /\ \E i \in DOMAIN stats[n] : stats[n][i].forwarded + stats[n][i].errors > 0

(* C29: after startup no step changes the route table: every node keeps    *)
(* its routes, in their order, each with its adapter ID (which holds the   *)
(* listen address) and its next hop, as the configuration gave them; the   *)
(* steps of the router change the counters only.                           *)
C29_RouteTableFixed ==
    /\ [][routesInOrder' = routesInOrder /\ topology' = topology]_vars
    /\ [](\A n \in DOMAIN topology : routesInOrder[n] = RoutesOf(topology[n]))

\* Requests were received, forwarded or failed and counted on a route while
\* the table is the configured one.
C29_Witness ==
    \E n \in DOMAIN topology :
        /\ CountersMoved(n)
        /\ Len(routesInOrder[n]) > 0
        /\ routesInOrder[n] = RoutesOf(topology[n])

----------------------------------------------------------------------------
(* The registry and the requests in flight *)

\* The requests of node n whose handleRequest flow has begun and not returned.
InFlightOn(n) == {r \in Requests : Pending(r) /\ NodeOf(req[r].adapter) = n}

(* C30: every correlation ID in the registry is the ID of a request whose  *)
(* handleRequest flow has not returned; the ID of a flow that has returned *)
(* by any path is absent; and the registry never holds more entries than   *)
(* there are requests in flight.                                           *)
C30_RegistryWithinInFlight ==
    /\ \A n \in DOMAIN globalResponseWriters :
          /\ \A id \in DOMAIN globalResponseWriters[n] :
                \E r \in InFlightOn(n) : RequestID(r) = id
          /\ Cardinality(DOMAIN globalResponseWriters[n]) <= Cardinality(InFlightOn(n))
    /\ \A r \in Requests : hpc[r] = "returned" => ~RegisteredNow(r)

\* One flow has ended on a publish failure, completion or timeout and its
\* ID is gone, while another request is in flight with its handle stored.
C30_Witness ==
    \E r, q \in Requests :
        /\ hpc[r] = "returned" /\ outcome[r] \in {"pubfail", "done", "timeout"}
        /\ removed[r] = 1 /\ ~RegisteredNow(r)
        /\ Pending(q) /\ RegisteredNow(q)

----------------------------------------------------------------------------
(* The handle is stored before the request event is published *)

\* This step is the Publish call of request r.
PublishStep(r) == publishCalls'[r] = publishCalls[r] + 1

\* In this step an emitter looked up the ID of request r and found no handle.
LookupMiss(r) ==
    results'[RequestID(r)]["notfound"] = results[RequestID(r)]["notfound"] + 1

(* C31: when handleRequest calls Publish for a request its handle is in    *)
(* the registry already; so a lookup by the emitter for a response to that *)
(* request misses the handle only after the flow of the request has        *)
(* removed it, on completion or on the timeout.                            *)
C31_StoredBeforePublished ==
    /\ [][\A r \in Requests : PublishStep(r) => RegisteredNow(r)]_vars
    /\ [][\A r \in Requests : LookupMiss(r) => removed[r] = 1 /\ ~Live(r)]_vars

\* An emitter holds the handle of a request that is still waiting and has
\* no response yet: the lookup found the handle.
C31_Witness ==
    \E e \in DOMAIN epc : \E r \in Requests :
        /\ epc[e] = "write" /\ erw[e] = r /\ eevt[e].id = RequestID(r)
        /\ hpc[r] = "waiting" /\ ~done[r] /\ RegisteredNow(r)

----------------------------------------------------------------------------
(* Writes after the flow has returned *)

(* C32: once the handleRequest flow of a request has returned, nothing is  *)
(* written to the connection of that request any more, also not by an      *)
(* emitter that got the handle before the timeout path removed it.         *)
C32_NoWriteAfterReturn ==
    [][\A r \in Requests : hpc[r] = "returned" => sink'[r] = sink[r]]_vars

----------------------------------------------------------------------------
(* The counters of a route *)

\* What route i of node n has accounted for: forwarded, dropped, errors.
Accounted(n, i) == stats[n][i].forwarded + stats[n][i].dropped + stats[n][i].errors

\* Node n is at rest: its workers are idle and its forwards have returned.
AtRest(n) ==
    /\ \A w \in DOMAIN wpc : WorkerNode(w) = n => wpc[w] = "idle"
    /\ \A f \in ForwardsFrom(n) : Returned(f)

(* C33: on every route the forwarded, dropped and error counters together  *)
(* never exceed the received counter, and with all workers idle and all    *)
(* forwards returned they add up to it: each received event is counted     *)
(* once as forwarded, dropped or error.                                    *)
C33_CountersAccountForReceived ==
    \A n \in DOMAIN stats : \A i \in DOMAIN stats[n] :
        /\ Accounted(n, i) <= stats[n][i].received
        /\ AtRest(n) => Accounted(n, i) = stats[n][i].received

\* A node at rest after it received two events and had a forward return.
C33_Witness ==
    \E n \in DOMAIN stats :
        /\ AtRest(n)
        /\ totalStats[n].received >= 2
        /\ \E i \in DOMAIN stats[n] : stats[n][i].forwarded + stats[n][i].errors >= 1
        /\ \E f \in ForwardsFrom(n) : Returned(f)

----------------------------------------------------------------------------
(* WriteResponse returning an error *)

\* This step is emitter e's WriteResponse returning an error: "response
\* already written", or the error of the body write.
WriteFails(e) == epc[e] = "write" /\ epc'[e] = "idle"

(* C34: a WriteResponse call that returns an error leaves the written flag *)
(* and the done signal of its handle as they were, so the listener waiting *)
(* on the handle is not released by it.                                    *)
C34_FailedWriteKeepsHandle ==
    [][\A e \in EchoEmitters :
          WriteFails(e) =>
             /\ written'[erw[e]] = written[erw[e]]
             /\ done'[erw[e]] = done[erw[e]]
             /\ hpc'[erw[e]] = hpc[erw[e]]
             /\ results'[eevt[e].id]["ok"] = results[eevt[e].id]["ok"]]_vars

\* A body write has failed and a second call found the response written,
\* both on handles whose listener state they left alone: one listener still
\* waits with done open.
C34_Witness ==
    \E r, q \in Requests :
        /\ results[RequestID(r)]["writeerr"] >= 1
        /\ hpc[r] = "waiting" /\ ~written[r] /\ ~done[r]
        /\ results[RequestID(q)]["already"] >= 1

----------------------------------------------------------------------------
(* Events the router cannot decode *)

\* This step is worker w finding that the payload of its event does not
\* decode.
DecodeFails(w) == wpc[w] = "recv" /\ ~wevt[w].ok /\ wpc'[w] # wpc[w]

(* C35: when the payload of a request event does not decode, the router    *)
(* adds one to the error counter of the event's route and ends with the    *)
(* event: the dropped and forwarded counters stay, no forward is started   *)
(* and no response event is published, then or later.                      *)
C35_UndecodableCountsOneError ==
    /\ [][\A w \in DOMAIN wpc :
            DecodeFails(w) =>
               LET n == WorkerNode(w)
                   i == RouteIndex(n, wevt[w].adapter)
               IN  /\ stats'[n][i].errors = stats[n][i].errors + 1
                   /\ stats'[n][i].dropped = stats[n][i].dropped
                   /\ stats'[n][i].forwarded = stats[n][i].forwarded
                   /\ \A j \in DOMAIN stats[n] \ {i} : stats'[n][j] = stats[n][j]
                   /\ forwards' = forwards /\ replies' = replies /\ respQ' = respQ
                   /\ wpc'[w] = "idle"]_vars
    /\ [](\A id \in DOMAIN evlog :
            (\E d \in Decisions(id) : d.verdict = "undecodable") =>
               /\ Len(evlog[id]) = 1
               /\ ForwardsOf(id) = {}
               /\ replies[id] = <<>>)

\* An undecodable event was handled: one error on its route and nothing
\* else, while the node received and forwarded another event.
C35_Witness ==
    \E n \in DOMAIN stats :
        /\ \E d \in Decisions(ForeignID) : d.verdict = "undecodable" /\ d.node = n
        /\ AtRest(n)
        /\ totalStats[n].errors = 1 /\ totalStats[n].dropped = 0
        /\ totalStats[n].received = 2 /\ totalStats[n].forwarded = 1
        /\ replies[ForeignID] = <<>>

----------------------------------------------------------------------------
(* The running flag over sequences of Start and Stop *)

SuccessfulStart(c) == c.op = "Start" /\ c.err = NoError

\* The calls of a log that can change the adapter: every call but a Start
\* that returned an error.
StateChanging(log) == SelectSeq(log, LAMBDA c : c.op = "Stop" \/ SuccessfulStart(c))

\* The most recent state-changing call of the log was a successful Start.
LastWasStart(log) ==
    LET sc == StateChanging(log) IN sc # <<>> /\ SuccessfulStart(sc[Len(sc)])

\* The call made in this step on adapter a.
ThisCall(a) == calls'[a][Len(calls'[a])]

(* C36: after any sequence of Start and Stop calls an adapter is running   *)
(* exactly when its most recent state-changing call was a successful       *)
(* Start; a Start succeeds exactly when the adapter is not running, a Stop *)
(* leaves it not running whatever Shutdown returned, and a Start after a   *)
(* Stop succeeds.                                                          *)
C36_RunningIffLastStart ==
    /\ [](\A a \in DOMAIN srv : srv[a].running <=> LastWasStart(calls[a]))
    /\ [][\A a \in DOMAIN srv :
            /\ Called(a, "Start") =>
                  /\ (ThisCall(a).err = NoError) <=> ~srv[a].running
                  /\ srv'[a].running
            /\ Called(a, "Stop") => ~srv'[a].running
            /\ (Called(a, "Start") /\ calls[a] # <<>>
                  /\ calls[a][Len(calls[a])].op = "Stop") =>
                  ThisCall(a).err = NoError /\ srv'[a].running]_vars

\* Started, stopped with an error from Shutdown, and started again: the
\* adapter runs with its second server.
C36_Witness ==
    \E a \in DOMAIN srv :
        /\ Len(calls[a]) = 3
        /\ SuccessfulStart(calls[a][1])
        /\ calls[a][2].op = "Stop" /\ calls[a][2].err # NoError
        /\ SuccessfulStart(calls[a][3])
        /\ srv[a].running /\ srv[a].server = 2

----------------------------------------------------------------------------
(* ParsePathParams, on strings as sequences of characters *)

MaxPatternLen == 5     \* characters of a pattern
MaxPathLen == 3        \* characters of a path

PathChars == {"/", ":", "a", "b"}

Strings(maxLen) == UNION {[1 .. len -> PathChars] : len \in 0 .. maxLen}

RECURSIVE TrimLeft(_, _)
\* strings.TrimLeft(s, cut)
TrimLeft(s, cut) ==
    IF s # <<>> /\ Head(s) = cut THEN TrimLeft(Tail(s), cut) ELSE s

RECURSIVE TrimRight(_, _)
\* strings.TrimRight(s, cut)
TrimRight(s, cut) ==
    IF s # <<>> /\ s[Len(s)] = cut THEN TrimRight(SubSeq(s, 1, Len(s) - 1), cut) ELSE s

\* strings.Trim(s, cut): every leading and trailing cut character goes
Trim(s, cut) == TrimRight(TrimLeft(s, cut), cut)

RECURSIVE Split(_, _)
\* strings.Split(s, sep): the parts between the separators; a string
\* without separator, the empty one included, is one part
Split(s, sep) ==
    IF \A k \in DOMAIN s : s[k] # sep THEN <<s>>
    ELSE LET k == CHOOSE x \in DOMAIN s : s[x] = sep /\ \A y \in 1 .. (x - 1) : s[y] # sep
         IN  <<SubSeq(s, 1, k - 1)>> \o Split(SubSeq(s, k + 1, Len(s)), sep)

\* strings.HasPrefix(part, ":")
HasPrefix(part, c) == part # <<>> /\ part[1] = c

\* strings.TrimPrefix(part, ":")
TrimPrefix(part, c) == IF HasPrefix(part, c) THEN Tail(part) ELSE part

\* make(map[string]string)
EmptyMap == [x \in {} |-> <<>>]

\* params[paramName] = value
Assign(params, name, value) ==
    [x \in (DOMAIN params) \cup {name} |-> IF x = name THEN value ELSE params[x]]

RECURSIVE ParseLoop_KeepPartial(_, _, _, _)
\* (mutant) a literal that does not match returns the bindings made so far
ParseLoop_KeepPartial(patternParts, pathParts, i, params) ==
    IF i > Len(patternParts) THEN params
    ELSE IF HasPrefix(patternParts[i], ":")
      THEN ParseLoop_KeepPartial(patternParts, pathParts, i + 1,
                     Assign(params, TrimPrefix(patternParts[i], ":"), pathParts[i]))
    ELSE IF patternParts[i] # pathParts[i] THEN params
    ELSE ParseLoop_KeepPartial(patternParts, pathParts, i + 1, params)

RECURSIVE ParseLoop(_, _, _, _)
\* for i, part := range patternParts { ... }; return params
ParseLoop(patternParts, pathParts, i, params) ==
    IF i > Len(patternParts) THEN params
    ELSE IF HasPrefix(patternParts[i], ":")
      THEN ParseLoop(patternParts, pathParts, i + 1,
                     Assign(params, TrimPrefix(patternParts[i], ":"), pathParts[i]))
    ELSE IF patternParts[i] # pathParts[i] THEN EmptyMap
    ELSE ParseLoop(patternParts, pathParts, i + 1, params)

ParsePathParams(pattern, path) ==
    LET patternParts == Split(Trim(pattern, "/"), "/")
        pathParts == Split(Trim(path, "/"), "/")
    IN  IF Len(patternParts) # Len(pathParts) THEN EmptyMap
        ELSE ParseLoop(patternParts, pathParts, 1, EmptyMap)

\* One call ParsePathParams(pattern, path).
ParseInit ==
    /\ arg \in Strings(MaxPatternLen) \X Strings(MaxPathLen)
    /\ uuid = FreshIDs({})
    /\ srv = AllStarted(RelayPool)
    /\ InitState(RelayPool, {}, {})

ParseCall ==
    /\ ret = <<>>
    /\ ret' = <<ParsePathParams(arg[1], arg[2])>>
    /\ UNCHANGED <<topology, uuid, calls, arg, phase, srv, listenerVars, busVars,
                   emitterVars, routerVars>>

ParseNext == ParseCall

ParseSpec == ParseInit /\ [][ParseNext]_vars

\* The segments of a pattern or path: what lies between its slashes, the
\* slashes at its ends set aside.
Segments(s) == Split(Trim(s, "/"), "/")

IsParam(seg) == seg # <<>> /\ seg[1] = ":"
ParamName(seg) == Tail(seg)
ParamPositions(pat) == {i \in DOMAIN pat : IsParam(pat[i])}
ParamNames(pat) == {ParamName(pat[i]) : i \in ParamPositions(pat)}

\* Pattern and path have as many segments and every literal segment of the
\* pattern is the path's segment at its position.
PathMatches(pat, pth) ==
    /\ Len(pat) = Len(pth)
    /\ \A i \in DOMAIN pat : ~IsParam(pat[i]) => pat[i] = pth[i]

\* The last position at which the pattern has the parameter name.
LastPosition(pat, name) ==
    CHOOSE i \in ParamPositions(pat) :
        ParamName(pat[i]) = name
          /\ \A j \in ParamPositions(pat) : ParamName(pat[j]) = name => j <= i

\* The names of the pattern's parameters are distinct.
DistinctNames(pat) ==
    \A i, j \in ParamPositions(pat) : ParamName(pat[i]) = ParamName(pat[j]) => i = j

(* C37 as stated: on a match the result binds exactly the ':name'          *)
(* segments of the pattern, each to the path segment at its position;      *)
(* otherwise the result is the empty map.                                  *)
C37_BindsEverySegment ==
    ret # <<>> =>
       LET pat == Segments(arg[1])
           pth == Segments(arg[2])
       IN  IF PathMatches(pat, pth)
             THEN /\ DOMAIN ret[1] = ParamNames(pat)
                  /\ \A i \in ParamPositions(pat) : ret[1][ParamName(pat[i])] = pth[i]
             ELSE ret[1] = EmptyMap

(* C37, amended: on a match the result binds exactly the parameter names   *)
(* of the pattern, each to the path segment at the last position where the *)
(* pattern has that name, which for a pattern with distinct names is the   *)
(* segment at the position of each ':name'; otherwise the result is the    *)
(* empty map, with no binding left from the segments before the mismatch.  *)
C37_BindsLastSegmentOfName ==
    ret # <<>> =>
       LET pat == Segments(arg[1])
           pth == Segments(arg[2])
       IN  IF PathMatches(pat, pth)
             THEN /\ DOMAIN ret[1] = ParamNames(pat)
                  /\ \A name \in ParamNames(pat) :
                        ret[1][name] = pth[LastPosition(pat, name)]
                  /\ DistinctNames(pat) =>
                        \A i \in ParamPositions(pat) : ret[1][ParamName(pat[i])] = pth[i]
             ELSE ret[1] = EmptyMap

\* A call whose pattern has two parameters with distinct names and a path
\* that matches: both are bound, to different segments.
C37_Witness ==
    /\ ret # <<>>
    /\ PathMatches(Segments(arg[1]), Segments(arg[2]))
    /\ Cardinality(DOMAIN ret[1]) = 2
    /\ \E x, y \in DOMAIN ret[1] : ret[1][x] # ret[1][y]

====
